---- MODULE Spec2Model ----
(***************************************************************************)
(* genflagged: the generator of github.com/asmsh/flagged.                  *)
(*                                                                         *)
(* The module models main() of cmd/genflagged as a state machine: the      *)
(* package variants are sorted, every variant is walked for the still      *)
(* unresolved type names (findStructTypeFile / genStructDecl), the width   *)
(* of each resolved type is settled (flagSize / generateForStruct), and    *)
(* one file is written per variant that resolved a type.                   *)
(*                                                                         *)
(* Identifiers are strings; go/ast nodes, go/types types and objects are   *)
(* records.                                                                *)
(***************************************************************************)
EXTENDS Integers, Sequences, FiniteSets, TLC

(***************************************************************************)
(* Bounds of the model.                                                    *)
(***************************************************************************)
\* Longest -type list that is tried.
MaxTypes == 2
\* The field counts n of the generated all-bool structs run from 0 to
\* MaxWidth + ExtraFields.
ExtraFields == 2

\* The widest supported flags type (genflagged.go:462).
MaxWidth == 64

(***************************************************************************)
(* strings / bytes / unicode helpers used by the generator.                *)
(***************************************************************************)
HasPrefix(s, prefix) ==
    /\ Len(prefix) <= Len(s)
    /\ SubSeq(s, 1, Len(prefix)) = prefix

HasSuffix(s, suffix) ==
    /\ Len(suffix) <= Len(s)
    /\ SubSeq(s, Len(s) - Len(suffix) + 1, Len(s)) = suffix

TrimPrefix(s, prefix) ==
    IF HasPrefix(s, prefix) THEN SubSeq(s, Len(prefix) + 1, Len(s)) ELSE s

TrimSuffix(s, suffix) ==
    IF HasSuffix(s, suffix) THEN SubSeq(s, 1, Len(s) - Len(suffix)) ELSE s

LowerLetters == <<"a", "b", "c", "d", "e", "f", "g", "h", "i", "j", "k", "l", "m",
                  "n", "o", "p", "q", "r", "s", "t", "u", "v", "w", "x", "y", "z">>
UpperLetters == <<"A", "B", "C", "D", "E", "F", "G", "H", "I", "J", "K", "L", "M",
                  "N", "O", "P", "Q", "R", "S", "T", "U", "V", "W", "X", "Y", "Z">>

\* unicode.ToUpper on one character (a string of length 1).
ToUpper(c) ==
    IF \E i \in 1..Len(LowerLetters) : LowerLetters[i] = c
    THEN UpperLetters[CHOOSE i \in 1..Len(LowerLetters) : LowerLetters[i] = c]
    ELSE IF c = "ñ" THEN "Ñ"
    ELSE c

\* The ASCII characters from code 48 ('0') to 122 ('z'), which hold every
\* ASCII character of a Go identifier; codes 92 and 96 are left out.
Printable ==
    "0123456789:;<=>?@ABCDEFGHIJKLMNOPQRSTUVWXYZ[.]^_.abcdefghijklmnopqrstuvwxyz"

IsAscii(c) == \E i \in 1..Len(Printable) : SubSeq(Printable, i, i) = c

\* The characters outside ASCII that names of the analysed packages use.
WideChars == {"ñ", "Ñ"}

\* []byte(c): the UTF-8 encoding of one character.
Utf8(c) ==
    CASE c = "ñ" -> <<195, 177>>
      [] c = "Ñ" -> <<195, 145>>
      [] OTHER -> <<47 + (CHOOSE i \in 1..Len(Printable) : SubSeq(Printable, i, i) = c)>>

\* string(bs): the characters a byte slice reads as; a byte that starts no
\* encoding reads as U+FFFD (written "\\uFFFD" here).
RECURSIVE String(_)
String(bs) ==
    IF bs = <<>> THEN ""
    ELSE IF bs[1] \in 48..122
    THEN SubSeq(Printable, bs[1] - 47, bs[1] - 47) \o String(Tail(bs))
    ELSE IF \E c \in WideChars :
               Len(Utf8(c)) <= Len(bs) /\ SubSeq(bs, 1, Len(Utf8(c))) = Utf8(c)
    THEN LET c == CHOOSE x \in WideChars :
                     Len(Utf8(x)) <= Len(bs) /\ SubSeq(bs, 1, Len(Utf8(x))) = Utf8(x)
         IN c \o String(SubSeq(bs, Len(Utf8(c)) + 1, Len(bs)))
    ELSE "\\uFFFD" \o String(Tail(bs))

\* unicode.ToUpper(rune(b)) for a byte b: the upper case of the code point
\* b (Latin-1), which for U+00B5 and U+00FF lies above 255.
ToUpperRune(b) ==
    CASE b \in 97..122 -> b - 32
      [] b = 181 -> 924
      [] b \in (224..254) \ {247} -> b - 32
      [] b = 255 -> 376
      [] OTHER -> b

\* strings.ToLower, character by character.
ToLowerChar(c) ==
    IF \E i \in 1..Len(UpperLetters) : UpperLetters[i] = c
    THEN LowerLetters[CHOOSE i \in 1..Len(UpperLetters) : UpperLetters[i] = c]
    ELSE c

RECURSIVE ToLower(_)
ToLower(s) ==
    IF Len(s) = 0 THEN ""
    ELSE ToLowerChar(SubSeq(s, 1, 1)) \o ToLower(SubSeq(s, 2, Len(s)))

(***************************************************************************)
(* part_002: naming and sizing helpers.                                    *)
(***************************************************************************)
defaultOutTypeName(sourceTypeName) == sourceTypeName \o "BitFlags"

\* Faulty variant: the file is named after the type as it is spelled.
defaultFileNameKeepsCase(pkg, sourceTypeName) ==
    sourceTypeName \o (IF pkg.hasTestFiles THEN "_flagged_test.go" ELSE "_flagged.go")

defaultFileName(pkg, sourceTypeName) ==
    LET suffix == IF pkg.hasTestFiles THEN "flagged_test.go" ELSE "flagged.go"
    IN ToLower(sourceTypeName) \o "_" \o suffix

\* The bytes left of the field name after both trimmings.
flagNameTrimmed(fieldName, trimPrefix, trimSuffix) ==
    LET fn1 == IF Len(trimPrefix) > 0 THEN TrimPrefix(fieldName, trimPrefix)
               ELSE fieldName
    IN IF Len(trimSuffix) > 0 THEN TrimSuffix(fn1, trimSuffix) ELSE fn1

\* fn[0] of an empty slice: the index is out of range and the run panics.
flagNamePanics(fieldName, trimPrefix, trimSuffix) ==
    Len(flagNameTrimmed(fieldName, trimPrefix, trimSuffix)) = 0

\* fn[0] = uint8(unicode.ToUpper(rune(fn[0]))): the first byte of the
\* name, not its first character, is replaced.
flagName(fieldName, trimPrefix, trimSuffix) ==
    LET fn == flagNameTrimmed(fieldName, trimPrefix, trimSuffix)
        first == Utf8(SubSeq(fn, 1, 1))
    IN String([first EXCEPT ![1] = ToUpperRune(@) % 256]) \o SubSeq(fn, 2, Len(fn))

flagSizeOffByOne(numFields) ==
    CASE 0 < numFields /\ numFields < 8 -> 8
      [] 8 <= numFields /\ numFields < 16 -> 16
      [] 16 <= numFields /\ numFields < 32 -> 32
      [] 32 <= numFields /\ numFields < 64 -> 64
      [] OTHER -> numFields

flagSize(numFields) ==
    CASE 0 < numFields /\ numFields <= 8 -> 8
      [] 8 < numFields /\ numFields <= 16 -> 16
      [] 16 < numFields /\ numFields <= 32 -> 32
      [] 32 < numFields /\ numFields <= 64 -> 64
      [] OTHER -> numFields

(***************************************************************************)
(* go/types as the generator uses it: a type is a record                   *)
(* [kind, name, fields]; kind is "basic", "named", "alias" or "struct".    *)
(***************************************************************************)
BasicType(name) == [kind |-> "basic", name |-> name, fields |-> <<>>]
NamedType(name) == [kind |-> "named", name |-> name, fields |-> <<>>]
AliasType(name) == [kind |-> "alias", name |-> name, fields |-> <<>>]
StructTypeOf(fields) == [kind |-> "struct", name |-> "", fields |-> fields]

BoolT == BasicType("bool")
IntT == BasicType("int")
StringT == BasicType("string")

\* The alias declarations of the analysed package (the type checker's
\* symbol table): type Flag = bool; type Switch = Flag; type Count = int;
\* type Mode = MyBool (MyBool being a named type: type MyBool bool).
AliasTarget(name) ==
    CASE name = "Flag" -> BoolT
      [] name = "Switch" -> AliasType("Flag")
      [] name = "Count" -> IntT
      [] OTHER -> NamedType("MyBool")

\* types.Unalias: unwraps every alias of a chain.
RECURSIVE Unalias(_)
Unalias(t) == IF t.kind = "alias" THEN Unalias(AliasTarget(t.name)) ELSE t

\* (*types.Basic).Info() & types.IsBoolean != 0
IsBoolean(t) == t.kind = "basic" /\ t.name = "bool"

(***************************************************************************)
(* go/ast as the generator uses it.                                        *)
(*   Field    : [names, typ]       one field declaration of a struct       *)
(*   TypeSpec : [name, pos, local, isStruct, fields]                       *)
(*   Node     : [kind, tok, specs, children]                               *)
(* types.Object (an entry of TypesInfo.Defs) : [name, pos, local].         *)
(***************************************************************************)
Field(names, typ) == [names |-> names, typ |-> typ]

StructSpec(name, pos, local, fields) ==
    [name |-> name, pos |-> pos, local |-> local, isStruct |-> TRUE,
     fields |-> fields]

\* type <name> int
OtherSpec(name, pos, local) ==
    [name |-> name, pos |-> pos, local |-> local, isStruct |-> FALSE,
     fields |-> <<>>]

TypeDecl(specs) ==
    [kind |-> "GenDecl", tok |-> "TYPE", specs |-> specs, children |-> <<>>]

\* A var, const or import declaration.
VarDecl == [kind |-> "GenDecl", tok |-> "VAR", specs |-> <<>>, children |-> <<>>]

\* A function declaration; children are the declarations of its body.
FuncDecl(body) ==
    [kind |-> "FuncDecl", tok |-> "", specs |-> <<>>, children |-> body]

FileNode(decls) ==
    [kind |-> "File", tok |-> "", specs |-> <<>>, children |-> decls]

NilObject == [name |-> "", pos |-> 0, local |-> FALSE]

\* f.pkg.defs[tspec.Name]
Defs(tspec) == [name |-> tspec.name, pos |-> tspec.pos, local |-> tspec.local]

\* A File of a loaded package, with the fields that are reset for each
\* type being generated. file is the pointer to the parsed AST (the AST is
\* never written: Ast(file) is what it points to); panicked records an
\* index-out-of-range panic inside flagName.
NewFile(fileName, ast) ==
    [fileName |-> fileName, file |-> ast, sourceTypeName |-> "",
     foundSourceType |-> NilObject, flagValues |-> <<>>, flagsSize |-> 0,
     panicked |-> FALSE]

(***************************************************************************)
(* struct_file.go: File.genStructDecl, the ast.Inspect callback.           *)
(***************************************************************************)
\* Faulty variant of isValidStructFile: a type without flags is accepted.
isValidStructFileAlways(f) == TRUE

isValidStructFile(f) == Len(f.flagValues) # 0

\* Faulty variants of the field filter and of the accumulation order.
isTargetTypeNoUnalias(typ) == typ.kind = "basic" /\ IsBoolean(typ)

addFlagValueFront(flagValues, fv) == <<fv>> \o flagValues

\* Fields named '_' are skipped, regardless of type.
isTargetName(name) == name # "_"

\* The actual (unaliased) type must be a *types.Basic with IsBoolean set.
isTargetType(typ) ==
    LET actualType == Unalias(typ)
    IN actualType.kind = "basic" /\ IsBoolean(actualType)

addFlagValue(flagValues, fv) == Append(flagValues, fv)

\* The loop over the names of one field declaration.
RECURSIVE namesLoop(_, _, _, _)
namesLoop(f, names, typ, pkg) ==
    IF names = <<>> \/ f.panicked THEN f
    ELSE LET name == Head(names)
             f1 == IF ~isTargetName(name) THEN f
                   ELSE IF ~isTargetType(typ) THEN f
                   ELSE IF flagNamePanics(name, pkg.trimPrefix, pkg.trimSuffix)
                        THEN [f EXCEPT !.panicked = TRUE]
                   ELSE [f EXCEPT !.flagValues = addFlagValue(@,
                            [Field |-> name,
                             Flag |-> flagName(name, pkg.trimPrefix, pkg.trimSuffix)])]
         IN namesLoop(f1, Tail(names), typ, pkg)

\* The loop over stype.Fields.List; embedded fields have no names.
RECURSIVE fieldsLoop(_, _, _)
fieldsLoop(f, fields, pkg) ==
    IF fields = <<>> \/ f.panicked THEN f
    ELSE LET field == Head(fields)
             f1 == IF Len(field.names) = 0 THEN f
                   ELSE namesLoop(f, field.names, field.typ, pkg)
         IN fieldsLoop(f1, Tail(fields), pkg)

\* The loop over decl.Specs.
RECURSIVE specsLoop(_, _, _)
specsLoop(f, specs, pkg) ==
    IF specs = <<>> \/ f.panicked THEN f
    ELSE LET tspec == Head(specs)
             f1 == IF f.sourceTypeName # tspec.name THEN f
                   ELSE LET found == [f EXCEPT !.foundSourceType = Defs(tspec)]
                        IN IF ~tspec.isStruct THEN found
                           ELSE fieldsLoop([found EXCEPT !.flagValues = <<>>],
                                           tspec.fields, pkg)
         IN specsLoop(f1, Tail(specs), pkg)

\* One call of the callback: the file after it and the callback's result
\* (TRUE: ast.Inspect goes on into the children of the node).
genStructDecl(f, node, pkg) ==
    IF node.kind # "GenDecl" \/ node.tok # "TYPE"
    THEN [file |-> f, descend |-> TRUE]
    ELSE LET f1 == specsLoop(f, node.specs, pkg)
         IN [file |-> [f1 EXCEPT !.flagsSize = flagSize(Len(f1.flagValues))],
             descend |-> FALSE]

\* ast.Inspect(file.file, file.genStructDecl) on a list of sibling nodes,
\* depth first: r is what the callback made of the first node; its
\* children are walked only when the callback returned true.
RECURSIVE Inspect(_, _, _)
inspectRest(r, nodes, pkg) ==
    Inspect(IF r.descend THEN Inspect(r.file, Head(nodes).children, pkg) ELSE r.file,
            Tail(nodes), pkg)

Inspect(f, nodes, pkg) ==
    IF nodes = <<>> \/ f.panicked THEN f
    ELSE inspectRest(genStructDecl(f, Head(nodes), pkg), nodes, pkg)

\* The state findStructTypeFile sets on a file before walking it.
resetFile(f, sourceTypeName) ==
    [f EXCEPT !.sourceTypeName = sourceTypeName, !.foundSourceType = NilObject,
              !.flagValues = <<>>, !.flagsSize = 0]

(***************************************************************************)
(* Declarations the walks read: the repository's examples and test data,   *)
(* and the shapes the resolver has to tell apart.                          *)
(***************************************************************************)
\* examples/permissions/main.go
PermissionsFields ==
    <<Field(<<"Read">>, BoolT), Field(<<"Write">>, BoolT), Field(<<"Exec">>, BoolT)>>

PermissionsDecls ==
    <<TypeDecl(<<StructSpec("Permissions", 1, FALSE, PermissionsFields)>>),
      FuncDecl(<<VarDecl>>)>>

\* testdata/mix_options/mix_options.go
MixOptionsFields ==
    <<Field(<<"Flag1">>, BoolT), Field(<<"Field2">>, IntT),
      Field(<<"Field3">>, StringT),
      Field(<<"Field4">>, StructTypeOf(<<Field(<<"Flag2">>, BoolT)>>)),
      Field(<<"Flag2">>, BoolT)>>

MixOptionsDecls == <<TypeDecl(<<StructSpec("MixOptions", 1, FALSE, MixOptionsFields)>>)>>

\* A struct of n bool fields Flag0 .. Flag<n-1>, one per field declaration.
BoolFields(n) == [i \in 1..n |-> Field(<<"Flag" \o ToString(i - 1)>>, BoolT)]

\* testdata/multiple_types/multiple_options.go
OptionsNumFields == 6
MaxOptionsNumFields == 26

MultipleOptionsDecls ==
    <<TypeDecl(<<StructSpec("options", 1, FALSE, BoolFields(OptionsNumFields))>>),
      TypeDecl(<<StructSpec("MaxOptions", 2, FALSE, BoolFields(MaxOptionsNumFields))>>)>>

\* Every way a field can fail or pass the filter:
\*   type T struct {
\*       A, B bool; C int; _ bool; D Flag; E Switch; F MyBool; G Mode
\*       H Count; bool; I, _, J bool; optFlagEnabled bool
\*   }
ShapesFields ==
    <<Field(<<"A", "B">>, BoolT), Field(<<"C">>, IntT), Field(<<"_">>, BoolT),
      Field(<<"D">>, AliasType("Flag")), Field(<<"E">>, AliasType("Switch")),
      Field(<<"F">>, NamedType("MyBool")), Field(<<"G">>, AliasType("Mode")),
      Field(<<"H">>, AliasType("Count")), Field(<<>>, BoolT),
      Field(<<"I", "_", "J">>, BoolT), Field(<<"optFlagEnabled">>, BoolT)>>

ShapesDecls ==
    <<VarDecl, TypeDecl(<<StructSpec("T", 1, FALSE, ShapesFields)>>)>>

\* type T struct { ñandu bool; plain bool; Ñu bool }
WideNamesDecls ==
    <<TypeDecl(<<StructSpec("T", 1, FALSE,
                            <<Field(<<"ñandu">>, BoolT), Field(<<"plain">>, BoolT),
                              Field(<<"Ñu">>, BoolT)>>)>>)>>

\* type ( U int; T struct { opt bool; Enabled bool; optEnabled bool } )
GroupedDecls ==
    <<TypeDecl(<<OtherSpec("U", 1, FALSE),
                 StructSpec("T", 2, FALSE,
                            <<Field(<<"opt">>, BoolT), Field(<<"Enabled">>, BoolT),
                              Field(<<"optEnabled">>, BoolT)>>)>>)>>

\* type T struct { x int; y MyBool; _ bool }: a struct without target fields.
NoTargetFields ==
    <<Field(<<"x">>, IntT), Field(<<"y">>, NamedType("MyBool")),
      Field(<<"_">>, BoolT)>>

NoTargetDecls == <<TypeDecl(<<StructSpec("T", 1, FALSE, NoTargetFields)>>)>>

\* type T int
NotStructDecls == <<TypeDecl(<<OtherSpec("T", 1, FALSE)>>)>>

\* A file without type declarations.
NoTypeDecls == <<VarDecl, FuncDecl(<<VarDecl>>)>>

\* How many fields the struct that needs a 16 bit type has.
TenFields == 10

\* type U struct { Flag0 .. Flag9 bool }; type T struct { Read, Write, Exec bool }
TAndUDecls ==
    <<TypeDecl(<<StructSpec("U", 1, FALSE, BoolFields(TenFields))>>),
      TypeDecl(<<StructSpec("T", 2, FALSE, PermissionsFields)>>)>>

\* type T struct { Read, Write, Exec bool }
TPermissionsDecls == <<TypeDecl(<<StructSpec("T", 1, FALSE, PermissionsFields)>>)>>

\* type T int; func f() { type T struct { Inner bool } }
LocalStructDecls ==
    <<TypeDecl(<<OtherSpec("T", 1, FALSE)>>),
      FuncDecl(<<VarDecl,
                 TypeDecl(<<StructSpec("T", 2, TRUE, <<Field(<<"Inner">>, BoolT)>>)>>)>>)>>

\* type T struct { Read, Write, Exec bool }; func f() { type T struct { Inner bool } }
ShadowedStructDecls ==
    <<TypeDecl(<<StructSpec("T", 1, FALSE, PermissionsFields)>>),
      FuncDecl(<<TypeDecl(<<StructSpec("T", 2, TRUE, <<Field(<<"Inner">>, BoolT)>>)>>)>>)>>

\* func f() { type T struct { Inner bool } }: no top-level type at all.
OnlyLocalDecls ==
    <<FuncDecl(<<TypeDecl(<<StructSpec("T", 1, TRUE, <<Field(<<"Inner">>, BoolT)>>)>>)>>)>>

\* type T struct { Flag0 .. Flag<n-1> bool }
BoolStructDecls(name, n) == <<TypeDecl(<<StructSpec(name, 1, FALSE, BoolFields(n))>>)>>

\* The parsed files, by reference: [lib, name, n] names one of the
\* declaration lists above (name and n matter for lib = "bools" only).
AstRef(lib) == [lib |-> lib, name |-> "", n |-> 0]
BoolsRef(name, n) == [lib |-> "bools", name |-> name, n |-> n]

Ast(ref) ==
    CASE ref.lib = "bools" -> BoolStructDecls(ref.name, ref.n)
      [] ref.lib = "permissions" -> PermissionsDecls
      [] ref.lib = "mix_options" -> MixOptionsDecls
      [] ref.lib = "multiple_options" -> MultipleOptionsDecls
      [] ref.lib = "shapes" -> ShapesDecls
      [] ref.lib = "grouped" -> GroupedDecls
      [] ref.lib = "wide_names" -> WideNamesDecls
      [] ref.lib = "local_struct" -> LocalStructDecls
      [] ref.lib = "shadowed_struct" -> ShadowedStructDecls
      [] ref.lib = "only_local" -> OnlyLocalDecls
      [] ref.lib = "no_target" -> NoTargetDecls
      [] ref.lib = "not_struct" -> NotStructDecls
      [] ref.lib = "t_and_u" -> TAndUDecls
      [] ref.lib = "t_permissions" -> TPermissionsDecls
      [] OTHER -> NoTypeDecls

\* Package.findStructTypeFile from file i on: the files after the walk and
\* the index of the returned file (0: nil). f1 is file i after its walk.
RECURSIVE findLoop(_, _, _, _)
findReturn(files, i, f1, sourceTypeName, pkg) ==
    IF f1.panicked
    THEN [files |-> [files EXCEPT ![i] = f1], found |-> 0, panicked |-> TRUE]
    ELSE IF f1.foundSourceType # NilObject
    THEN [files |-> [files EXCEPT ![i] = f1], found |-> i, panicked |-> FALSE]
    ELSE findLoop([files EXCEPT ![i] = f1], i + 1, sourceTypeName, pkg)

findLoop(files, i, sourceTypeName, pkg) ==
    IF i > Len(files) THEN [files |-> files, found |-> 0, panicked |-> FALSE]
    ELSE findReturn(files, i,
                    Inspect(resetFile(files[i], sourceTypeName),
                            <<FileNode(Ast(files[i].file))>>, pkg),
                    sourceTypeName, pkg)

findStructTypeFile(pkg, sourceTypeName) ==
    findLoop(pkg.files, 1, sourceTypeName, pkg)

(***************************************************************************)
(* State.                                                                  *)
(*                                                                         *)
(* The run of main():                                                      *)
(*   typeFlag, outFileFlag  the -type list as given and -outFile           *)
(*   in                     the validated input (in.sourceTypeNames is     *)
(*                          rewritten by the run)                          *)
(*   pkgs                   the loaded package variants                    *)
(*   pc, pkgIdx, idx        position of main: the package loop and the     *)
(*                          loop over in.sourceTypeNames                   *)
(*   foundTypes, remainingTypes, g   locals of the package loop            *)
(*   written                the files written so far, in order             *)
(*   fatal                  the diagnostic of log.Fatalf, if any           *)
(*   scanned                history: the <<variant, name>> pairs           *)
(*                          findStructTypeFile was called for              *)
(*                                                                         *)
(* One walk of one file (ast.Inspect with genStructDecl):                  *)
(*   walkPkg, walkFile      the package options and the File walked        *)
(*   walkTodo               the nodes still to be visited, next first      *)
(*   walkPc                 "idle", "walking", "returned"                  *)
(*   walkStruct             history: the last struct TypeSpec whose name   *)
(*                          matched during this walk (<<>>: none, else a   *)
(*                          one-element sequence)                          *)
(*                                                                         *)
(* The state of one BitFlags value of the runtime package (flagged.go):    *)
(*   bfSize                 Size() of the value's type: 8, 16, 32 or 64    *)
(*                          (0 while no value is in use)                   *)
(*   bfBits                 the value f, as the set of the bit positions   *)
(*                          that hold 1 (position 0 is the lowest bit)     *)
(*   bfIface                the pointer held by the interface value that   *)
(*                          BitFlags() returned: 0 before the call, else   *)
(*                          an address (1 is the address of f)             *)
(*   bfFresh                the cell at address 2, a copy of a value       *)
(*   bfCall                 history: the last method call on the value,    *)
(*                          its arguments, whether it panicked, what it    *)
(*                          returned and the value it was called on        *)
(***************************************************************************)
VARIABLES typeFlag, outFileFlag, flags, in, pkgs, pc, pkgIdx, idx, foundTypes,
          remainingTypes, g, written, fatal, scanned,
          walkPkg, walkFile, walkTodo, walkPc, walkStruct,
          bfSize, bfBits, bfIface, bfFresh, bfCall

mainVars == <<typeFlag, outFileFlag, flags, in, pkgs, pc, pkgIdx, idx, foundTypes,
              remainingTypes, g, written, fatal, scanned>>
walkVars == <<walkPkg, walkFile, walkTodo, walkPc, walkStruct>>
runtimeVars == <<bfSize, bfBits, bfIface, bfFresh, bfCall>>
vars == <<mainVars, walkVars, runtimeVars>>

(***************************************************************************)
(* The walk of one file, one callback at a time.                           *)
(***************************************************************************)
\* -trimprefix / -trimsuffix pairs that are tried.
TrimConfigs ==
    {[trimPrefix |-> "", trimSuffix |-> ""],
     [trimPrefix |-> "opt", trimSuffix |-> "Enabled"],
     [trimPrefix |-> "Flag", trimSuffix |-> ""]}

WalkTypeNames == {"T", "U", "Permissions", "MixOptions", "options", "MaxOptions"}

WalkAsts ==
    {AstRef(lib) : lib \in {"permissions", "mix_options", "multiple_options",
                            "shapes", "grouped", "wide_names", "local_struct",
                            "shadowed_struct",
                            "only_local", "no_target", "not_struct", "no_types"}}
    \cup {BoolsRef("T", n) : n \in 0..(MaxWidth + ExtraFields)}

NoPackage == [name |-> "", files |-> <<>>, hasTestFiles |-> FALSE,
              trimPrefix |-> "", trimSuffix |-> "", flagsSize |-> 0]

WalkInit ==
    /\ \E ast \in WalkAsts : walkFile = NewFile("a.go", ast)
    /\ \E t \in TrimConfigs :
          walkPkg = [NoPackage EXCEPT !.trimPrefix = t.trimPrefix,
                                      !.trimSuffix = t.trimSuffix]
    /\ walkTodo = <<>>
    /\ walkPc = "idle"
    /\ walkStruct = <<>>

\* findStructTypeFile sets the state of the file for this run of the walker.
WalkReset ==
    /\ walkPc = "idle"
    /\ \E sourceTypeName \in WalkTypeNames :
          walkFile' = resetFile(walkFile, sourceTypeName)
    /\ walkTodo' = <<FileNode(Ast(walkFile.file))>>
    /\ walkPc' = "walking"
    /\ UNCHANGED <<walkPkg, walkStruct>>
    /\ UNCHANGED <<mainVars, runtimeVars>>

\* The struct TypeSpecs of a declaration whose name is the requested one.
MatchingStructs(node, sourceTypeName) ==
    SelectSeq(node.specs, LAMBDA sp : sp.name = sourceTypeName /\ sp.isStruct)

\* ast.Inspect calls genStructDecl on the next node and pushes the node's
\* children when the callback returns true.
WalkVisit ==
    /\ walkPc = "walking"
    /\ walkTodo # <<>>
    /\ ~walkFile.panicked
    /\ LET node == Head(walkTodo)
           r == genStructDecl(walkFile, node, walkPkg)
           ms == MatchingStructs(node, walkFile.sourceTypeName)
       IN /\ walkFile' = r.file
          /\ walkTodo' = (IF r.descend THEN node.children ELSE <<>>) \o Tail(walkTodo)
          /\ walkStruct' = IF node.kind = "GenDecl" /\ node.tok = "TYPE" /\ ms # <<>>
                           THEN <<ms[Len(ms)]>>
                           ELSE walkStruct
    /\ UNCHANGED <<walkPkg, walkPc>>
    /\ UNCHANGED <<mainVars, runtimeVars>>

\* ast.Inspect returns; findStructTypeFile looks at file.foundSourceType.
WalkReturn ==
    /\ walkPc = "walking"
    /\ walkTodo = <<>> \/ walkFile.panicked
    /\ walkPc' = IF walkFile.panicked THEN "panic" ELSE "returned"
    /\ UNCHANGED <<walkPkg, walkFile, walkTodo, walkStruct>>
    /\ UNCHANGED <<mainVars, runtimeVars>>

(***************************************************************************)
(* The packages main() is run on: package x with one or two production     *)
(* files, optionally an in-package test file (which makes the variant      *)
(* "x compiled for tests" exist), optionally a file of package x_test.     *)
(***************************************************************************)
MainTypeNames == {"T", "U"}

ProdFileLists ==
    {<<NewFile("a.go", AstRef("t_permissions"))>>,
     <<NewFile("a.go", BoolsRef("T", TenFields))>>,
     <<NewFile("a.go", BoolsRef("T", MaxWidth + 1))>>,
     <<NewFile("a.go", AstRef("not_struct"))>>,
     <<NewFile("a.go", AstRef("no_target"))>>,
     <<NewFile("a.go", AstRef("local_struct"))>>,
     <<NewFile("a.go", AstRef("no_types"))>>,
     <<NewFile("a.go", AstRef("no_types")), NewFile("b.go", AstRef("t_and_u"))>>,
     <<NewFile("a.go", AstRef("not_struct")), NewFile("b.go", AstRef("only_local"))>>}

Range(s) == {s[i] : i \in 1..Len(s)}

\* Top-level type names a list of files declares.
TopLevelNames(files) ==
    UNION {UNION {{sp.name : sp \in Range(d.specs)} : d \in Range(Ast(f.file))} :
              f \in Range(files)}

InternalTestFileLists ==
    {<<>>,
     <<NewFile("a_test.go", BoolsRef("U", 2))>>}

ExternalTestFileLists ==
    {<<>>,
     <<NewFile("x_test.go", BoolsRef("T", 1))>>,
     <<NewFile("x_test.go", BoolsRef("U", TenFields))>>,
     <<NewFile("x_test.go", BoolsRef("u", 1))>>}

SizeFlags == {0, 8, 16, 32, 64}

\* The -trimprefix, -trimsuffix, -size options that are tried: every size
\* without trimming, and a prefix that is the whole name of a field.
MainOptions ==
    {[trimPrefix |-> "", trimSuffix |-> "", flagsSize |-> size] : size \in SizeFlags}
    \cup {[trimPrefix |-> "Read", trimSuffix |-> "", flagsSize |-> 0]}

OutFileFlags == {"", "out.go"}

OutTypeNames == {"Out", "_"}

SeqsOfLen(S, n) == [1..n -> S]

\* A -type list of two names that differ in case only.
CaseTypeFlags == {<<"U", "u">>}

\* The -type lists: any list of 1..MaxTypes names (validateFlags does not
\* reject repeated names), and the names that differ in case only.
TypeFlags ==
    UNION {SeqsOfLen(MainTypeNames, n) : n \in 1..MaxTypes} \cup CaseTypeFlags

\* The package variants packages.Load returns for the files on disk.
Variants(prod, itest, etest, input) ==
    LET mk(name, files, hasTest) ==
            [name |-> name, files |-> files, hasTestFiles |-> hasTest,
             trimPrefix |-> input.trimPrefix, trimSuffix |-> input.trimSuffix,
             flagsSize |-> input.flagsSize]
    IN <<mk("x", prod, FALSE)>>
       \o (IF itest = <<>> THEN <<>> ELSE <<mk("x", prod \o itest, TRUE)>>)
       \o (IF etest = <<>> THEN <<>> ELSE <<mk("x_test", etest, TRUE)>>)

\* All orders of a sequence.
Orders(s) ==
    {[i \in 1..Len(s) |-> s[p[i]]] :
        p \in {q \in [1..Len(s) -> 1..Len(s)] :
                  \A i, j \in 1..Len(s) : q[i] = q[j] => i = j}}

\* The orders packages.Load is taken to return the variants in: the one
\* above and its reverse.
LoadOrders(s) == {s, [i \in 1..Len(s) |-> s[Len(s) + 1 - i]]}

\* The -outType lists for a -type list of n names: none, or n names of
\* which at most one is not '_' (two generated types cannot share a name).
OutTypeLists(n) ==
    {<<>>} \cup {s \in SeqsOfLen(OutTypeNames, n) :
                    \A i, j \in 1..n : s[i] # "_" /\ s[j] # "_" => i = j}

(***************************************************************************)
(* genflagged.go: main() and Generator.generateForStruct.                  *)
(***************************************************************************)
NoDiag == [kind |-> "none", typeName |-> "", required |-> 0, requested |-> 0,
           names |-> <<>>]

Diag(kind, typeName, required, requested, names) ==
    [kind |-> kind, typeName |-> typeName, required |-> required,
     requested |-> requested, names |-> names]

NoGenerator == [pkg |-> 0, header |-> "", body |-> <<>>]

\* The less function of sort.Slice: x_test packages last, then fewer files
\* first.
less(a, b) ==
    LET iTest == HasSuffix(a.name, "_test")
        jTest == HasSuffix(b.name, "_test")
    IN IF iTest # jTest THEN ~iTest ELSE Len(a.files) < Len(b.files)

\* The results sort.Slice may leave (it is not a stable sort).
Sorted(ps) ==
    {q \in Orders(ps) : \A i, j \in 1..Len(q) : i < j => ~less(q[j], q[i])}

\* The out type name main() computes for the name at index i of the
\* current in.sourceTypeNames.
outTypeNameAt(input, i, sourceTypeName) ==
    LET given == IF Len(input.outTypeNames) > 0 /\ input.outTypeNames[i] # "_"
                 THEN input.outTypeNames[i]
                 ELSE ""
    IN IF Len(given) = 0 THEN defaultOutTypeName(sourceTypeName) ELSE given

\* Faulty variants of generateForStruct: one cuts the width at the maximum instead
\* of failing, one takes the override without comparing it.
generateForStructTruncating(gen, sourceTypeName, outTypeName, structFile, pkg) ==
    LET size == IF structFile.flagsSize > MaxWidth THEN MaxWidth
                ELSE structFile.flagsSize
    IN [fatal |-> NoDiag,
        g |-> [gen EXCEPT !.body = Append(@,
                 [SourceTypeName |-> sourceTypeName, OutTypeName |-> outTypeName,
                  OutTypeSize |-> IF pkg.flagsSize # 0 THEN pkg.flagsSize ELSE size,
                  OutInterfaceName |-> outTypeName \o "Interface",
                  FlagValues |-> structFile.flagValues])]]

generateForStructUnchecked(gen, sourceTypeName, outTypeName, structFile, pkg) ==
    LET size == structFile.flagsSize
    IN IF size > MaxWidth
       THEN [fatal |-> Diag("tooManyFields", sourceTypeName, size, MaxWidth, <<>>),
             g |-> gen]
       ELSE [fatal |-> NoDiag,
             g |-> [gen EXCEPT !.body = Append(@,
                 [SourceTypeName |-> sourceTypeName, OutTypeName |-> outTypeName,
                  OutTypeSize |-> IF pkg.flagsSize # 0 THEN pkg.flagsSize ELSE size,
                  OutInterfaceName |-> outTypeName \o "Interface",
                  FlagValues |-> structFile.flagValues])]]

\* Generator.generateForStruct: the diagnostic it dies with, or the
\* generator with the template input of the type appended to its buffer.
generateForStruct(gen, sourceTypeName, outTypeName, structFile, pkg) ==
    LET size == structFile.flagsSize
    IN IF size > MaxWidth
       THEN [fatal |-> Diag("tooManyFields", sourceTypeName, size, MaxWidth, <<>>),
             g |-> gen]
       ELSE IF pkg.flagsSize # 0 /\ pkg.flagsSize < size
       THEN [fatal |-> Diag("sizeTooSmall", sourceTypeName, size, pkg.flagsSize, <<>>),
             g |-> gen]
       ELSE [fatal |-> NoDiag,
             g |-> [gen EXCEPT !.body = Append(@,
                 [SourceTypeName |-> sourceTypeName, OutTypeName |-> outTypeName,
                  OutTypeSize |-> IF pkg.flagsSize # 0 THEN pkg.flagsSize ELSE size,
                  OutInterfaceName |-> outTypeName \o "Interface",
                  FlagValues |-> structFile.flagValues])]]

\* Faulty variant: the names left over are dropped after a variant that found some.
nextSourceTypeNamesNone(remaining) == <<>>

\* Faulty variant: the names of the variant are all kept, found or not.
nextSourceTypeNamesKeepsFound(remaining) == in.sourceTypeNames

\* in.sourceTypeNames = remainingTypes
nextSourceTypeNames(remaining) == remaining

\* The flags other than -type and -outFile, as parsed by flag.Parse: -outType
\* split at the commas (empty when not given), -size, -trimprefix,
\* -trimsuffix, -tags, and the arguments (each a path that is or is not a
\* directory).
DirArgs == <<[name |-> ".", isDir |-> TRUE]>>
FileArgs == <<[name |-> "a.go", isDir |-> FALSE], [name |-> "b.go", isDir |-> FALSE]>>
OneFileArgs == <<[name |-> "a.go", isDir |-> FALSE]>>

DefaultFlags ==
    [type |-> <<"T">>, outFile |-> "", outType |-> <<>>, size |-> 0,
     trimprefix |-> "", trimsuffix |-> "", tags |-> "", args |-> DirArgs]

\* The runs with valid flags on a directory.
DirectoryRuns ==
    UNION {{[DefaultFlags EXCEPT !.type = t, !.outFile = f, !.outType = ot,
                                 !.size = o.flagsSize, !.trimprefix = o.trimPrefix,
                                 !.trimsuffix = o.trimSuffix] :
               f \in OutFileFlags, ot \in OutTypeLists(Len(t)), o \in MainOptions} :
              t \in TypeFlags}

\* -type lists validateFlags rejects: not given, an empty element ("T,"),
\* an element that starts with a digit, holds a '-', or is a keyword.
InvalidTypeFlags == {<<>>, <<"T", "">>, <<"9T">>, <<"T-x", "U">>, <<"type">>}

InvalidSizeFlags == {7, 12, 128, -8}

\* Runs that differ from the default one in the flags validateFlags looks at.
EdgeRuns ==
    {[DefaultFlags EXCEPT !.type = t, !.size = sz] :
        t \in InvalidTypeFlags, sz \in {0} \cup InvalidSizeFlags}
    \cup {[DefaultFlags EXCEPT !.type = t, !.outType = ot] :
             t \in {<<"T">>, <<"T", "U">>},
             ot \in {<<"1Out">>, <<"Out">>, <<"Out", "_">>, <<"Out", "func">>,
                     <<"_", "_", "_">>}}
    \cup {[DefaultFlags EXCEPT !.size = sz, !.tags = tg, !.args = a] :
             sz \in {0} \cup InvalidSizeFlags, tg \in {"", "integration"},
             a \in {<<>>, DirArgs, FileArgs, OneFileArgs}}

FlagSets == DirectoryRuns \cup EdgeRuns

NoInput ==
    [sourceTypeNames |-> <<>>, outTypeNames |-> <<>>, trimPrefix |-> "",
     trimSuffix |-> "", flagsSize |-> 0, outFile |-> ""]

NoFlags ==
    [outType |-> <<>>, size |-> 0, trimprefix |-> "", trimsuffix |-> "",
     tags |-> "", args |-> <<>>]

\* go/token: the keywords, and IsIdentifier.
Keywords ==
    {"break", "case", "chan", "const", "continue", "default", "defer", "else",
     "fallthrough", "for", "func", "go", "goto", "if", "import", "interface",
     "map", "package", "range", "return", "select", "struct", "switch", "type",
     "var"}

IsLetter(c) ==
    c = "_" \/ c \in Range(LowerLetters) \cup Range(UpperLetters) \cup WideChars

IsDigit(c) == \E i \in 1..10 : SubSeq("0123456789", i, i) = c

IsIdentifier(name) ==
    /\ name # ""
    /\ name \notin Keywords
    /\ \A i \in 1..Len(name) :
          IsLetter(SubSeq(name, i, i)) \/ (i > 1 /\ IsDigit(SubSeq(name, i, i)))

\* validateTypeNames(typeNames) == nil
validateTypeNames(typeNames) ==
    \A i \in 1..Len(typeNames) : IsIdentifier(typeNames[i])

\* Faulty variant: any -size is taken.
validSizeAny(size) == TRUE

\* The switch over *sizeFlag.
validSize(size) == size = 0 \/ size \in {8, 16, 32, 64}

\* getDirFromArgs dies: -tags with anything but one directory.
tagsWithFiles(args, tags) ==
    LET as == IF Len(args) = 0 THEN DirArgs ELSE args
    IN ~(Len(as) = 1 /\ as[1].isDir) /\ Len(tags) # 0

\* validateFlags: the diagnostic it dies with (NoDiag: none) and the input
\* it returns.
validateFlags(type, outFile, f) ==
    LET die(kind, names) ==
            [fatal |-> [kind |-> kind, typeName |-> "", required |-> 0,
                        requested |-> f.size, names |-> names],
             in |-> NoInput]
    IN IF Len(type) = 0 THEN die("usage", <<>>)
       ELSE IF ~validateTypeNames(type) THEN die("invalidType", type)
       ELSE IF Len(f.outType) # 0 /\ ~validateTypeNames(f.outType)
       THEN die("invalidOutType", f.outType)
       ELSE IF Len(f.outType) # 0 /\ Len(f.outType) # Len(type)
       THEN die("outTypeMismatch", f.outType)
       ELSE IF ~validSize(f.size) THEN die("invalidSize", <<>>)
       ELSE IF tagsWithFiles(f.args, f.tags) THEN die("tagsWithFiles", <<>>)
       ELSE [fatal |-> [kind |-> "none", typeName |-> "", required |-> 0,
                        requested |-> 0, names |-> <<>>],
             in |-> [sourceTypeNames |-> type, outTypeNames |-> f.outType,
                     trimPrefix |-> f.trimprefix, trimSuffix |-> f.trimsuffix,
                     flagsSize |-> f.size, outFile |-> outFile]]

MainIdle ==
    /\ typeFlag = <<>>
    /\ outFileFlag = ""
    /\ flags = NoFlags
    /\ in = NoInput
    /\ pkgs = <<>>
    /\ pc = "idle"
    /\ pkgIdx = 0
    /\ idx = 0
    /\ foundTypes = <<>>
    /\ remainingTypes = <<>>
    /\ g = NoGenerator
    /\ written = <<>>
    /\ fatal = NoDiag
    /\ scanned = {}

WalkIdle ==
    /\ walkPkg = NoPackage
    /\ walkFile = NewFile("", AstRef("no_types"))
    /\ walkTodo = <<>>
    /\ walkPc = "off"
    /\ walkStruct = <<>>

\* After flag.Parse.
MainInit ==
    /\ \E f \in FlagSets :
          /\ typeFlag = f.type
          /\ outFileFlag = f.outFile
          /\ flags = [outType |-> f.outType, size |-> f.size,
                      trimprefix |-> f.trimprefix, trimsuffix |-> f.trimsuffix,
                      tags |-> f.tags, args |-> f.args]
    /\ in = NoInput
    /\ pkgs = <<>>
    /\ pc = "validate"
    /\ pkgIdx = 0
    /\ idx = 0
    /\ foundTypes = <<>>
    /\ remainingTypes = <<>>
    /\ g = NoGenerator
    /\ written = <<>>
    /\ fatal = NoDiag
    /\ scanned = {}

\* in := validateFlags()
ValidateFlags ==
    /\ pc = "validate"
    /\ LET r == validateFlags(typeFlag, outFileFlag, flags)
       IN IF r.fatal.kind # "none"
          THEN /\ fatal' = r.fatal
               /\ pc' = "fatal"
               /\ UNCHANGED in
          ELSE /\ in' = r.in
               /\ pc' = "load"
               /\ UNCHANGED fatal
    /\ UNCHANGED <<typeFlag, outFileFlag, flags, pkgs, pkgIdx, idx, foundTypes,
                   remainingTypes, g, written, scanned>>
    /\ UNCHANGED <<walkVars, runtimeVars>>

\* pkgs := loadPackages(in): the variants of the package on disk, in the
\* order packages.Load returns them.
LoadPackages ==
    /\ pc = "load"
    /\ \E prod \in ProdFileLists, itest \in InternalTestFileLists,
          etest \in ExternalTestFileLists :
          /\ TopLevelNames(prod) \cap TopLevelNames(itest) = {}
          /\ pkgs' \in LoadOrders(Variants(prod, itest, etest, in))
    /\ pc' = "sort"
    /\ UNCHANGED <<typeFlag, outFileFlag, flags, in, pkgIdx, idx, foundTypes,
                   remainingTypes, g, written, fatal, scanned>>
    /\ UNCHANGED <<walkVars, runtimeVars>>

\* sort.Slice(pkgs, ...)
SortPackages ==
    /\ pc = "sort"
    /\ pkgs' \in Sorted(pkgs)
    /\ pkgIdx' = 1
    /\ pc' = "pkg"
    /\ UNCHANGED <<typeFlag, outFileFlag, flags, in, idx, foundTypes, remainingTypes, g,
                   written, fatal, scanned>>
    /\ UNCHANGED <<walkVars, runtimeVars>>

\* The head of the loop over pkgs: a new Generator and its header.
StartPackage ==
    /\ pc = "pkg"
    /\ pkgIdx <= Len(pkgs)
    /\ g' = [pkg |-> pkgIdx, header |-> pkgs[pkgIdx].name, body |-> <<>>]
    /\ foundTypes' = <<>>
    /\ remainingTypes' = <<>>
    /\ idx' = 1
    /\ pc' = "types"
    /\ UNCHANGED <<typeFlag, outFileFlag, flags, in, pkgs, pkgIdx, written, fatal, scanned>>
    /\ UNCHANGED <<walkVars, runtimeVars>>

\* The body of the loop over in.sourceTypeNames once findStructTypeFile
\* has returned r, and (for a file that is valid) generateForStruct gen.
processFound(sourceTypeName, file, gen) ==
    IF ~isValidStructFile(file)
    THEN /\ fatal' = Diag("unsupported", file.foundSourceType.name, 0, 0,
                          <<sourceTypeName>>)
         /\ pc' = "fatal"
         /\ UNCHANGED <<idx, foundTypes, remainingTypes, g>>
    ELSE IF gen.fatal # NoDiag
    THEN /\ fatal' = gen.fatal
         /\ pc' = "fatal"
         /\ UNCHANGED <<idx, foundTypes, remainingTypes, g>>
    ELSE /\ g' = gen.g
         /\ foundTypes' = Append(foundTypes, sourceTypeName)
         /\ idx' = idx + 1
         /\ UNCHANGED <<pc, remainingTypes, fatal>>

processType(sourceTypeName, outTypeName, pkg, r) ==
    /\ pkgs' = [pkgs EXCEPT ![pkgIdx].files = r.files]
    /\ scanned' = scanned \cup {<<pkgIdx, sourceTypeName>>}
    /\ IF r.panicked
       THEN /\ pc' = "panic"
            /\ UNCHANGED <<idx, foundTypes, remainingTypes, g, fatal>>
       ELSE IF r.found = 0
       THEN /\ remainingTypes' = Append(remainingTypes, sourceTypeName)
            /\ idx' = idx + 1
            /\ UNCHANGED <<pc, foundTypes, g, fatal>>
       ELSE processFound(sourceTypeName, r.files[r.found],
                         generateForStruct(g, sourceTypeName, outTypeName,
                                           r.files[r.found], pkg))

\* One iteration of the loop over in.sourceTypeNames.
ProcessType ==
    /\ pc = "types"
    /\ idx <= Len(in.sourceTypeNames)
    /\ processType(in.sourceTypeNames[idx],
                   outTypeNameAt(in, idx, in.sourceTypeNames[idx]),
                   pkgs[pkgIdx],
                   findStructTypeFile(pkgs[pkgIdx], in.sourceTypeNames[idx]))
    /\ UNCHANGED <<typeFlag, outFileFlag, flags, in, pkgIdx, written>>
    /\ UNCHANGED <<walkVars, runtimeVars>>

\* Faulty variant: a file is written for a package without a matching type.
SkipPackageWritesEmpty ==
    /\ pc = "types"
    /\ idx > Len(in.sourceTypeNames)
    /\ Len(foundTypes) = 0
    /\ written' = Append(written, [outFileName |-> "_flagged.go", src |-> g])
    /\ pkgIdx' = pkgIdx + 1
    /\ pc' = "pkg"
    /\ UNCHANGED <<typeFlag, outFileFlag, flags, in, pkgs, idx, foundTypes,
                   remainingTypes, g, fatal, scanned>>
    /\ UNCHANGED <<walkVars, runtimeVars>>

\* No matching type in the current package: nothing is written.
SkipPackage ==
    /\ pc = "types"
    /\ idx > Len(in.sourceTypeNames)
    /\ Len(foundTypes) = 0
    /\ pkgIdx' = pkgIdx + 1
    /\ pc' = "pkg"
    /\ UNCHANGED <<typeFlag, outFileFlag, flags, in, pkgs, idx, foundTypes,
                   remainingTypes, g, written, fatal, scanned>>
    /\ UNCHANGED <<walkVars, runtimeVars>>

\* Faulty variant: a single output file is never seen as a conflict.
outFileConflictNone(remaining, outFile) == FALSE

\* if n := len(remainingTypes); n > 0 { if *outFileFlag != "" { Fatalf } }
outFileConflict(remaining, outFile) == Len(remaining) > 0 /\ outFile # ""

\* Faulty variant: the conflict is seen after the file has been written.
OutFileConflictAfterWrite ==
    /\ pc = "types"
    /\ idx > Len(in.sourceTypeNames)
    /\ Len(foundTypes) > 0
    /\ outFileConflict(remainingTypes, outFileFlag)
    /\ written' = Append(written, [outFileName |-> in.outFile, src |-> g])
    /\ fatal' = Diag("singleFile", "", 0, 0, <<outFileFlag>>)
    /\ pc' = "fatal"
    /\ UNCHANGED <<typeFlag, outFileFlag, flags, in, pkgs, pkgIdx, idx, foundTypes,
                   remainingTypes, g, scanned>>
    /\ UNCHANGED <<walkVars, runtimeVars>>

\* Types remain for later packages, and -outFile names a single file.
OutFileConflict ==
    /\ pc = "types"
    /\ idx > Len(in.sourceTypeNames)
    /\ Len(foundTypes) > 0
    /\ outFileConflict(remainingTypes, outFileFlag)
    /\ fatal' = Diag("singleFile", "", 0, 0, <<outFileFlag>>)
    /\ pc' = "fatal"
    /\ UNCHANGED <<typeFlag, outFileFlag, flags, in, pkgs, pkgIdx, idx, foundTypes,
                   remainingTypes, g, written, scanned>>
    /\ UNCHANGED <<walkVars, runtimeVars>>

\* The names left over become in.sourceTypeNames; the output is formatted
\* and written.
WritePackage ==
    /\ pc = "types"
    /\ idx > Len(in.sourceTypeNames)
    /\ Len(foundTypes) > 0
    /\ ~outFileConflict(remainingTypes, outFileFlag)
    /\ in' = [in EXCEPT !.sourceTypeNames = nextSourceTypeNames(remainingTypes)]
    /\ LET outFileName == IF in.outFile = ""
                          THEN defaultFileName(pkgs[pkgIdx], foundTypes[1])
                          ELSE in.outFile
       IN written' = Append(written, [outFileName |-> outFileName, src |-> g])
    /\ pkgIdx' = pkgIdx + 1
    /\ pc' = "pkg"
    /\ UNCHANGED <<typeFlag, outFileFlag, flags, pkgs, idx, foundTypes, remainingTypes,
                   g, fatal, scanned>>
    /\ UNCHANGED <<walkVars, runtimeVars>>

\* After the loop over pkgs.
Finish ==
    /\ pc = "pkg"
    /\ pkgIdx > Len(pkgs)
    /\ IF Len(in.sourceTypeNames) > 0
       THEN /\ fatal' = Diag("noMatching", "", 0, 0, in.sourceTypeNames)
            /\ pc' = "fatal"
       ELSE /\ pc' = "done"
            /\ UNCHANGED fatal
    /\ UNCHANGED <<typeFlag, outFileFlag, flags, in, pkgs, pkgIdx, idx, foundTypes,
                   remainingTypes, g, written, scanned>>
    /\ UNCHANGED <<walkVars, runtimeVars>>

Next ==
    \/ ValidateFlags
    \/ LoadPackages
    \/ SortPackages
    \/ StartPackage
    \/ ProcessType
    \/ SkipPackage
    \/ OutFileConflict
    \/ WritePackage
    \/ Finish

(***************************************************************************)
(* The runtime package: one BitFlags8/16/32/64 value and the calls made on *)
(* it.  An unsigned integer of Size() bits is the set of the positions of  *)
(* its 1 bits, so that all four widths are computed exactly; &, |, &^, ^   *)
(* and << are the operations on such sets.                                 *)
(***************************************************************************)
\* Size() of BitFlags8, BitFlags16, BitFlags32, BitFlags64.
Sizes == {8, 16, 32, 64}

\* T(0) and ^T(0).
Zero == {}
AllSetValue(size) == 0 .. (size - 1)

\* 1 << idx in a type of size bits: a count of size or more shifts the bit out.
Shl1(size, i) == IF i \in 0 .. (size - 1) THEN {i} ELSE {}

And(a, b) == a \cap b
Or(a, b) == a \cup b
AndNot(a, b) == a \ b
Xor(a, b) == (a \ b) \cup (b \ a)

\* Faulty variant of validateBitIndex: idx = size is let through.
validateBitIndexOffByOne(size, i) == i < 0 \/ i > size

\* validateBitIndex: TRUE when it panics.
validateBitIndex(size, i) == i < 0 \/ i >= size

\* is: the result of a call that did not panic.
is(size, f, i) == And(f, Shl1(size, i)) # Zero

\* Faulty variant of set: the returned value is read after the assignment.
setReturnsNew(size, f, i, new) ==
    LET after == IF new THEN Or(f, Shl1(size, i))
                 ELSE AndNot(f, Shl1(size, i))
    IN  [f |-> after, old |-> And(after, Shl1(size, i)) # Zero]

\* set: the value and the result of a call that did not panic.
set(size, f, i, new) ==
    [f |-> IF new THEN Or(f, Shl1(size, i)) ELSE AndNot(f, Shl1(size, i)),
     old |-> And(f, Shl1(size, i)) # Zero]

\* Faulty variant of toggle: the returned value is read before the assignment.
toggleReturnsOld(size, f, i) ==
    [f |-> Xor(f, Shl1(size, i)), new |-> And(f, Shl1(size, i)) # Zero]

\* toggle: the value and the result of a call that did not panic.
toggle(size, f, i) ==
    LET after == Xor(f, Shl1(size, i))
    IN  [f |-> after, new |-> And(after, Shl1(size, i)) # Zero]

\* Faulty variant of setAll: the highest bit is left out.
setAllButTop(size) == 0 .. (size - 2)

setAll(size) == AllSetValue(size)

resetAll == Zero

\* Faulty variant of the loop of anySet: it returns at the first set bit.
RECURSIVE anySetLoopShortCircuit(_, _, _, _)
anySetLoopShortCircuit(size, f, idxs, foundSet) ==
    IF idxs = <<>> THEN [panicked |-> FALSE, ret |-> foundSet]
    ELSE LET bi == Head(idxs)
         IN  IF validateBitIndex(size, bi) THEN [panicked |-> TRUE, ret |-> FALSE]
             ELSE IF And(f, Shl1(size, bi)) # Zero
                  THEN [panicked |-> FALSE, ret |-> TRUE]
                  ELSE anySetLoopShortCircuit(size, f, Tail(idxs), foundSet)

\* The loop of anySet over the indexes that are left: it validates every
\* index, also after a set bit was found.
RECURSIVE anySetLoop(_, _, _, _)
anySetLoop(size, f, idxs, foundSet) ==
    IF idxs = <<>> THEN [panicked |-> FALSE, ret |-> foundSet]
    ELSE LET bi == Head(idxs)
         IN  IF validateBitIndex(size, bi) THEN [panicked |-> TRUE, ret |-> FALSE]
             ELSE anySetLoop(size, f, Tail(idxs),
                             IF And(f, Shl1(size, bi)) # Zero THEN TRUE
                             ELSE foundSet)

\* anySet: whether the call panicked and what it returned.
anySet(size, f, idxs) ==
    IF Len(idxs) = 0 THEN [panicked |-> FALSE, ret |-> f # Zero]
    ELSE anySetLoop(size, f, idxs, FALSE)

\* The loop of allSet; foundUnset is the name the code gives to the result,
\* which starts true and becomes false at an unset bit.
RECURSIVE allSetLoop(_, _, _, _)
allSetLoop(size, f, idxs, foundUnset) ==
    IF idxs = <<>> THEN [panicked |-> FALSE, ret |-> foundUnset]
    ELSE LET bi == Head(idxs)
         IN  IF validateBitIndex(size, bi) THEN [panicked |-> TRUE, ret |-> FALSE]
             ELSE allSetLoop(size, f, Tail(idxs),
                             IF And(f, Shl1(size, bi)) = Zero THEN FALSE
                             ELSE foundUnset)

\* Faulty variant of allSet: without indexes it holds vacuously.
allSetVacuous(size, f, idxs) == allSetLoop(size, f, idxs, TRUE)

\* allSet: whether the call panicked and what it returned.
allSet(size, f, idxs) ==
    IF Len(idxs) = 0 THEN [panicked |-> FALSE, ret |-> f = AllSetValue(size)]
    ELSE allSetLoop(size, f, idxs, TRUE)

\* What iteration i of the loop of getBinaryString writes.
binaryWrite(size, f, i) ==
    IF And(f, Shl1(size, size - i - 1)) # Zero THEN "1" ELSE "0"

\* What the iterations lo .. hi-1 of the loop of getBinaryString write, in
\* this order (the range is halved to keep the evaluation shallow).
RECURSIVE binaryLoop(_, _, _, _)
binaryLoop(size, f, lo, hi) ==
    IF hi <= lo THEN ""
    ELSE IF hi = lo + 1 THEN binaryWrite(size, f, lo)
    ELSE LET mid == (lo + hi) \div 2
         IN  binaryLoop(size, f, lo, mid) \o binaryLoop(size, f, mid, hi)

\* Faulty variant of getBinaryString: the lowest bit comes first.
getBinaryStringLowFirst(size, f) ==
    binaryLoop(size, {size - 1 - b : b \in f}, 0, size)

getBinaryString(size, f) == binaryLoop(size, f, 0, size)

\* What iteration i of the loop of getPrettyString writes.
prettyWrite(size, f, i) ==
    IF And(f, Shl1(size, size - i - 1)) # Zero
    THEN IF i = size - 1 THEN "I"
         ELSE IF (i + 1) % 8 = 0 /\ i # 0 THEN "I_"
         ELSE "I|"
    ELSE IF i = size - 1 THEN "O"
         ELSE IF (i + 1) % 8 = 0 /\ i # 0 THEN "O_"
         ELSE "O|"

\* What the iterations lo .. hi-1 of the loop of getPrettyString write.
RECURSIVE prettyLoop(_, _, _, _)
prettyLoop(size, f, lo, hi) ==
    IF hi <= lo THEN ""
    ELSE IF hi = lo + 1 THEN prettyWrite(size, f, lo)
    ELSE LET mid == (lo + hi) \div 2
         IN  prettyLoop(size, f, lo, mid) \o prettyLoop(size, f, mid, hi)

\* Faulty variant of getPrettyString: the last bit is followed by a
\* separator as the others are.
getPrettyStringTrailing(size, f) == prettyLoop(size, f, 0, size) \o "|"

getPrettyString(size, f) == prettyLoop(size, f, 0, size)

\* The indexes the calls are made with, the ones of the tests: 0, size/2,
\* size-1 in range; -1, size, 2*size out of range.
BitIndexes(size) == {-1, 0, size \div 2, size - 1, size, 2 * size}

\* The values a BitFlags value starts with.
InitialValues(size) == {Zero, AllSetValue(size), {1, size - 1}}

\* The index lists AnyOf and AllOf are called with: every list of at most
\* two of 0, 5, size, the list of -1, and the lists of three of the tests.
ListIndexes(size) == {0, 5, size}

IndexLists(size) ==
    {<<>>, <<-1>>} \cup {<<a>> : a \in ListIndexes(size)}
           \cup {<<a, b>> : a, b \in ListIndexes(size)}
           \cup {<<0, 3, 1>>, <<0, 3, size>>, <<size, 7, 6>>, <<size, 3, 1>>,
                 <<5, size, 0>>, <<5, 0, size>>, <<3, 5, 7>>}

\* The memory the calls work on: address 1 holds the typed value f (bfBits),
\* address 2 is a cell that holds a copy of it once one is made (bfFresh).
\* A typed call works on &f; a call on the interface value works on the
\* pointer the interface holds (bfIface).
Deref(h) == IF h = "typed" THEN 1 ELSE bfIface

Load(a) == IF a = 1 THEN bfBits ELSE bfFresh

Store(a, v) ==
    IF a = 1 THEN bfBits' = v /\ UNCHANGED bfFresh
    ELSE bfFresh' = v /\ UNCHANGED bfBits

\* The handles a call can be made on: the typed value and, once BitFlags()
\* was called, the interface value it returned.
Handles == IF bfIface = 0 THEN {"typed"} ELSE {"typed", "iface"}

\* Faulty variant of the adapter: the interface holds a pointer to a copy.
BitFlagsOfCopy(a) == [ptr |-> 2, fresh |-> Load(a)]

\* f.BitFlags(): return f.  The pointer the interface holds, and address 2.
BitFlagsOf(a) == [ptr |-> a, fresh |-> bfFresh]

NoCall == [op |-> "none", via |-> "typed", idx |-> 0, idxs |-> <<>>,
           new |-> FALSE, panicked |-> FALSE, ret |-> FALSE, str |-> "",
           before |-> Zero]

Call(h, op, i, new, panicked, ret) ==
    [NoCall EXCEPT !.op = op, !.via = h, !.idx = i, !.new = new,
                   !.panicked = panicked, !.ret = ret,
                   !.before = Load(Deref(h))]

\* A call with a list of indexes.
CallOf(h, op, idxs, r) ==
    [NoCall EXCEPT !.op = op, !.via = h, !.idxs = idxs,
                   !.panicked = r.panicked, !.ret = r.ret,
                   !.before = Load(Deref(h))]

\* A call that returns a string.
CallStr(h, op, str) ==
    [NoCall EXCEPT !.op = op, !.via = h, !.str = str,
                   !.before = Load(Deref(h))]

RuntimeIdle ==
    /\ bfSize = 0
    /\ bfBits = Zero
    /\ bfIface = 0
    /\ bfFresh = Zero
    /\ bfCall = NoCall

\* New(f) for one of the four types.
RuntimeInit ==
    /\ bfSize \in Sizes
    /\ bfBits \in InitialValues(bfSize)
    /\ bfIface = 0
    /\ bfFresh = Zero
    /\ bfCall = NoCall

\* f.BitFlags()
BitFlags ==
    /\ bfSize \in Sizes
    /\ LET r == BitFlagsOf(Deref("typed"))
       IN  /\ bfIface' = r.ptr
           /\ bfFresh' = r.fresh
    /\ bfCall' = Call("typed", "BitFlags", 0, FALSE, FALSE, FALSE)
    /\ UNCHANGED <<bfSize, bfBits, mainVars, walkVars>>

\* f.Is(idx)
Is ==
    /\ bfSize \in Sizes
    /\ \E h \in Handles, i \in BitIndexes(bfSize) :
          IF validateBitIndex(bfSize, i)
          THEN bfCall' = Call(h, "Is", i, FALSE, TRUE, FALSE)
          ELSE bfCall' = Call(h, "Is", i, FALSE, FALSE,
                              is(bfSize, Load(Deref(h)), i))
    /\ UNCHANGED <<bfSize, bfBits, bfFresh, bfIface, mainVars, walkVars>>

\* f.Set(idx), f.Reset(idx), f.SetTo(idx, new): set with new = true, false
\* and the argument.
SetTo ==
    /\ bfSize \in Sizes
    /\ \E h \in Handles, i \in BitIndexes(bfSize),
          c \in {[op |-> "Set", new |-> TRUE], [op |-> "Reset", new |-> FALSE],
                 [op |-> "SetTo", new |-> TRUE], [op |-> "SetTo", new |-> FALSE]} :
          IF validateBitIndex(bfSize, i)
          THEN /\ bfCall' = Call(h, c.op, i, c.new, TRUE, FALSE)
               /\ UNCHANGED <<bfBits, bfFresh>>
          ELSE LET r == set(bfSize, Load(Deref(h)), i, c.new)
               IN  /\ Store(Deref(h), r.f)
                   /\ bfCall' = Call(h, c.op, i, c.new, FALSE, r.old)
    /\ UNCHANGED <<bfSize, bfIface, mainVars, walkVars>>

\* f.Toggle(idx)
Toggle ==
    /\ bfSize \in Sizes
    /\ \E h \in Handles, i \in BitIndexes(bfSize) :
          IF validateBitIndex(bfSize, i)
          THEN /\ bfCall' = Call(h, "Toggle", i, FALSE, TRUE, FALSE)
               /\ UNCHANGED <<bfBits, bfFresh>>
          ELSE LET r == toggle(bfSize, Load(Deref(h)), i)
               IN  /\ Store(Deref(h), r.f)
                   /\ bfCall' = Call(h, "Toggle", i, FALSE, FALSE, r.new)
    /\ UNCHANGED <<bfSize, bfIface, mainVars, walkVars>>

\* f.SetAll()
SetAll ==
    /\ bfSize \in Sizes
    /\ \E h \in Handles :
          /\ Store(Deref(h), setAll(bfSize))
          /\ bfCall' = Call(h, "SetAll", 0, FALSE, FALSE, FALSE)
    /\ UNCHANGED <<bfSize, bfIface, mainVars, walkVars>>

\* f.ResetAll()
ResetAll ==
    /\ bfSize \in Sizes
    /\ \E h \in Handles :
          /\ Store(Deref(h), resetAll)
          /\ bfCall' = Call(h, "ResetAll", 0, FALSE, FALSE, FALSE)
    /\ UNCHANGED <<bfSize, bfIface, mainVars, walkVars>>

\* f.String()
BinaryString ==
    /\ bfSize \in Sizes
    /\ \E h \in Handles :
          bfCall' = CallStr(h, "String", getBinaryString(bfSize, Load(Deref(h))))
    /\ UNCHANGED <<bfSize, bfBits, bfFresh, bfIface, mainVars, walkVars>>

\* f.PrettyString()
PrettyString ==
    /\ bfSize \in Sizes
    /\ \E h \in Handles :
          bfCall' = CallStr(h, "PrettyString",
                            getPrettyString(bfSize, Load(Deref(h))))
    /\ UNCHANGED <<bfSize, bfBits, bfFresh, bfIface, mainVars, walkVars>>

\* f.AnySet()
AnySet ==
    /\ bfSize \in Sizes
    /\ \E h \in Handles :
          bfCall' = CallOf(h, "AnySet", <<>>, anySet(bfSize, Load(Deref(h)), <<>>))
    /\ UNCHANGED <<bfSize, bfBits, bfFresh, bfIface, mainVars, walkVars>>

\* f.AllSet()
AllSet ==
    /\ bfSize \in Sizes
    /\ \E h \in Handles :
          bfCall' = CallOf(h, "AllSet", <<>>, allSet(bfSize, Load(Deref(h)), <<>>))
    /\ UNCHANGED <<bfSize, bfBits, bfFresh, bfIface, mainVars, walkVars>>

\* f.AnyOf(idx...)
AnyOf ==
    /\ bfSize \in Sizes
    /\ \E h \in Handles, idxs \in IndexLists(bfSize) :
          bfCall' = CallOf(h, "AnyOf", idxs, anySet(bfSize, Load(Deref(h)), idxs))
    /\ UNCHANGED <<bfSize, bfBits, bfFresh, bfIface, mainVars, walkVars>>

\* f.AllOf(idx...)
AllOf ==
    /\ bfSize \in Sizes
    /\ \E h \in Handles, idxs \in IndexLists(bfSize) :
          bfCall' = CallOf(h, "AllOf", idxs, allSet(bfSize, Load(Deref(h)), idxs))
    /\ UNCHANGED <<bfSize, bfBits, bfFresh, bfIface, mainVars, walkVars>>

(***************************************************************************)
(* Specifications: Spec is a run of main(); WalkSpec is one walk of one    *)
(* file by findStructTypeFile, callback by callback; RuntimeSpec is a      *)
(* sequence of calls on one BitFlags value.                                *)
(***************************************************************************)
Init == MainInit /\ WalkIdle /\ RuntimeIdle

Spec == Init /\ [][Next]_vars

InitWalk == MainIdle /\ WalkInit /\ RuntimeIdle

NextWalk == WalkReset \/ WalkVisit \/ WalkReturn

WalkSpec == InitWalk /\ [][NextWalk]_vars

InitRuntime == MainIdle /\ WalkIdle /\ RuntimeInit

NextRuntime ==
    \/ BitFlags
    \/ Is \/ SetTo \/ Toggle \/ SetAll \/ ResetAll
    \/ AnySet \/ AllSet \/ AnyOf \/ AllOf
    \/ BinaryString \/ PrettyString

RuntimeSpec == InitRuntime /\ [][NextRuntime]_vars

(***************************************************************************)
(* What the properties below are stated with.  None of it is used by the   *)
(* actions.                                                                *)
(***************************************************************************)
Widths == {8, 16, 32, 64}

\* The smallest supported width that holds n flags (n in 1..64).
MinimalWidth(n) ==
    CHOOSE w \in Widths : w >= n /\ \A v \in Widths : v >= n => w <= v

\* The aliases of the analysed package that denote the builtin bool.
BoolAliases == {"Flag", "Switch"}

DenotesBool(typ) ==
    \/ typ = BoolT
    \/ typ.kind = "alias" /\ typ.name \in BoolAliases

\* The names of the fields of a struct TypeSpec that are flags: written
\* in a field declaration of the struct itself, not '_', of type bool.
TargetNames(tspec) ==
    UNION {Range(fld.names) \ {"_"} :
              fld \in {x \in Range(tspec.fields) : DenotesBool(x.typ)}}

\* The place <<i, j>> of a field name in the struct: name j of field
\* declaration i.
PlaceOf(tspec, a) ==
    LET i == CHOOSE x \in 1..Len(tspec.fields) : a \in Range(tspec.fields[x].names)
        j == CHOOSE y \in 1..Len(tspec.fields[i].names) : tspec.fields[i].names[y] = a
    IN <<i, j>>

\* Name a is written before name b in the struct.
WrittenBefore(tspec, a, b) ==
    LET pa == PlaceOf(tspec, a)
        pb == PlaceOf(tspec, b)
    IN pa[1] < pb[1] \/ (pa[1] = pb[1] /\ pa[2] < pb[2])

FieldsOf(flagValues) == [i \in 1..Len(flagValues) |-> flagValues[i].Field]

\* Every TypeSpec of a list of nodes, at any depth.
RECURSIVE AllSpecs(_)
AllSpecs(nodes) ==
    IF nodes = <<>> THEN {}
    ELSE (IF Head(nodes).kind = "GenDecl" /\ Head(nodes).tok = "TYPE"
          THEN Range(Head(nodes).specs) ELSE {})
         \cup AllSpecs(Head(nodes).children) \cup AllSpecs(Tail(nodes))

\* The top-level TypeSpecs of a parsed file.
TopLevelSpecs(ast) ==
    UNION {Range(d.specs) : d \in {x \in Range(Ast(ast)) :
                                      x.kind = "GenDecl" /\ x.tok = "TYPE"}}

\* A package variant holds a type declaration of that name.
Declares(pkg, name) ==
    \E f \in Range(pkg.files) : \E sp \in AllSpecs(Ast(f.file)) : sp.name = name

\* The template inputs written to files so far, as <<file, entry>> places.
WrittenPlaces ==
    {<<k, i>> \in (1..Len(written)) \X (1..(MaxTypes + 1)) :
        i <= Len(written[k].src.body)}

EmittedCount(name) ==
    Cardinality({p \in WrittenPlaces :
                    written[p[1]].src.body[p[2]].SourceTypeName = name})

\* Every template input rendered so far, with the variant it belongs to.
Rendered ==
    {[variant |-> g.pkg, input |-> e] : e \in Range(g.body)}
    \cup UNION {{[variant |-> w.src.pkg, input |-> e] : e \in Range(w.src.body)} :
                   w \in Range(written)}

\* The requested names no written file holds.
Unresolved ==
    {name \in Range(typeFlag) : EmittedCount(name) = 0}

\* The variants are in the order main() walks them: package x, package x
\* compiled for tests, package x_test.
CanonicalOrder ==
    \A i, j \in 1..Len(pkgs) :
       i < j => \/ pkgs[i].name = "x" /\ pkgs[j].name = "x_test"
                \/ /\ pkgs[i].name = pkgs[j].name
                   /\ ~pkgs[i].hasTestFiles /\ pkgs[j].hasTestFiles

(***************************************************************************)
(* Properties of the walk of one file (WalkSpec).                          *)
(***************************************************************************)

\* C4: for every field count n in 1..64, flagSize(n) is the smallest of
\* 8, 16, 32, 64 that is >= n: whenever the walk has collected n flags,
\* the flags size of the file is that width.
C4_FlagSizeIsMinimalWidth ==
    (walkPc \in {"walking", "returned"}
        /\ Len(walkFile.flagValues) \in 1..MaxWidth)
    => walkFile.flagsSize = MinimalWidth(Len(walkFile.flagValues))

C4_Witness ==
    /\ walkPc = "returned"
    /\ Len(walkFile.flagValues) = 33
    /\ walkFile.flagsSize = 64

\* C7: the flag values of a matched struct declaration are exactly its
\* own fields that are named, not '_', and of type bool after unaliasing,
\* each once; a field inside a nested struct type is not among them
\* (MixOptions gives exactly Flag1, Flag2).
C7_CandidatesAreOwnBoolFields ==
    (walkStruct # <<>> /\ ~walkFile.panicked)
    => /\ Range(FieldsOf(walkFile.flagValues)) = TargetNames(walkStruct[1])
       /\ Len(walkFile.flagValues) = Cardinality(TargetNames(walkStruct[1]))
       /\ walkStruct[1].name = "MixOptions"
            => FieldsOf(walkFile.flagValues) = <<"Flag1", "Flag2">>

C7_Witness ==
    /\ walkPc = "returned"
    /\ walkStruct # <<>>
    /\ walkStruct[1].fields = ShapesFields
    /\ Range(FieldsOf(walkFile.flagValues)) = {"A", "B", "D", "E", "I", "J", "optFlagEnabled"}

\* C8: the flag values are in field-declaration order, the names of one
\* field declaration in their written order: every target field is among
\* them and each is written before the next one, so the k-th target field
\* has index k-1; for Read, Write, Exec the result is [Read, Write, Exec]
\* and the flags size is 8.
C8_CandidatesInDeclarationOrder ==
    (walkStruct # <<>> /\ ~walkFile.panicked)
    => /\ TargetNames(walkStruct[1]) \subseteq Range(FieldsOf(walkFile.flagValues))
       /\ \A k \in 1..(Len(walkFile.flagValues) - 1) :
             WrittenBefore(walkStruct[1], walkFile.flagValues[k].Field,
                           walkFile.flagValues[k + 1].Field)
       /\ walkStruct[1].fields = PermissionsFields
            => /\ FieldsOf(walkFile.flagValues) = <<"Read", "Write", "Exec">>
               /\ walkFile.flagsSize = 8

C8_Witness ==
    /\ walkPc = "returned"
    /\ walkStruct # <<>>
    /\ walkStruct[1].fields = ShapesFields
    /\ FieldsOf(walkFile.flagValues) = <<"A", "B", "D", "E", "I", "J", "optFlagEnabled">>

\* C10: only top-level type declarations are matched: the type found is
\* never one declared inside a function body, and a declaration inside a
\* function body never changes the flag values of a top-level match of the
\* same file.
C10_OnlyTopLevelMatched ==
    (walkPc = "returned" /\ walkFile.foundSourceType # NilObject)
    => /\ ~walkFile.foundSourceType.local
       /\ \A sp \in TopLevelSpecs(walkFile.file) :
             (sp.name = walkFile.sourceTypeName /\ sp.isStruct)
             => Range(FieldsOf(walkFile.flagValues)) = TargetNames(sp)

(***************************************************************************)
(* Properties of a run of main() (Spec).                                   *)
(***************************************************************************)
\* The first variant, in the order main() walks them, that declares name
\* (0: none does).
FirstDeclaring(name) ==
    IF \E v \in 1..Len(pkgs) : Declares(pkgs[v], name)
    THEN CHOOSE v \in 1..Len(pkgs) :
            /\ Declares(pkgs[v], name)
            /\ \A u \in 1..(v - 1) : ~Declares(pkgs[u], name)
    ELSE 0

\* Once sorted, the variants are walked in the canonical order; a type is
\* rendered only in the first variant that declares it, and no variant
\* after that one is searched for it.
FirstVariantOnly ==
    pc # "sort"
    => /\ CanonicalOrder
       /\ \A r \in Rendered : r.variant = FirstDeclaring(r.input.SourceTypeName)
       /\ \A sc \in scanned :
             \A u \in 1..(sc[1] - 1) : ~Declares(pkgs[u], sc[2])

\* C1: each requested type name is emitted exactly once, in the first
\* package variant (package x, x compiled for tests, x_test) that declares
\* it, and no later variant is searched for it.
C1_EmittedOnceInFirstVariant ==
    /\ FirstVariantOnly
    /\ \A name \in Range(typeFlag) : EmittedCount(name) <= 1
    /\ pc = "done" => \A name \in Range(typeFlag) : EmittedCount(name) = 1

\* The out type name the -outType list gives the name at index i of the
\* -type list as it was passed.
ExpectedOutTypeName(i) ==
    IF in.outTypeNames = <<>> \/ in.outTypeNames[i] = "_"
    THEN typeFlag[i] \o "BitFlags"
    ELSE in.outTypeNames[i]

\* C2: the generated type of a resolved source type is named by the
\* -outType entry at the index the source type has in the -type list, or
\* <source type>BitFlags when -outType is not given or that entry is '_'.
C2_OutTypeNameAtSameIndex ==
    \A r \in Rendered :
       \E i \in 1..Len(typeFlag) :
          /\ typeFlag[i] = r.input.SourceTypeName
          /\ r.input.OutTypeName = ExpectedOutTypeName(i)

\* C3: once every variant has been processed the run dies exactly when a
\* requested name is unresolved, the diagnostic names every unresolved
\* name, and the run succeeds only with no name remaining.
C3_UnresolvedNamesAreFatal ==
    /\ (pc = "pkg" /\ pkgIdx > Len(pkgs))
          => Range(in.sourceTypeNames) = Unresolved
    /\ pc = "done" => Unresolved = {} /\ in.sourceTypeNames = <<>>
    /\ (pc = "fatal" /\ fatal.kind = "noMatching")
          => /\ Unresolved # {}
             /\ Range(fatal.names) = Unresolved
             /\ pkgIdx > Len(pkgs)

C3_Witness ==
    /\ pc = "fatal"
    /\ fatal.kind = "noMatching"
    /\ fatal.names = <<"U">>
    /\ Len(typeFlag) = 2
    /\ written # <<>>

\* The files of one variant in which the walk found a type.
FoundFiles == {f \in UNION {Range(p.files) : p \in Range(pkgs)} :
                  f.foundSourceType # NilObject /\ ~f.panicked}

\* C5: a resolved type with more than 64 flag values makes the run die
\* with a diagnostic giving the number of fields and the maximum 64; the
\* flag values are not cut and nothing is rendered for the type.
C5_TooManyFieldsIsFatal ==
    /\ \A f \in FoundFiles :
          Len(f.flagValues) > MaxWidth
          => /\ pc = "fatal"
             /\ fatal = Diag("tooManyFields", f.sourceTypeName,
                             Len(f.flagValues), MaxWidth, <<>>)
             /\ \A r \in Rendered : r.input.SourceTypeName # f.sourceTypeName
    /\ \A r \in Rendered :
          /\ Len(r.input.FlagValues) <= MaxWidth
          /\ r.input.OutTypeSize <= MaxWidth
    /\ fatal.kind = "tooManyFields" => fatal.required > MaxWidth

C5_Witness ==
    /\ pc = "fatal"
    /\ fatal.kind = "tooManyFields"
    /\ fatal.required = MaxWidth + 1
    /\ fatal.requested = MaxWidth

\* C6: with -size 0 the width rendered is the minimal width; with
\* 0 < -size < minimal the run dies with a diagnostic giving the type,
\* the minimal width and the requested one; with -size >= minimal the
\* width rendered is -size; every type of the run gets the same -size.
C6_WidthReconciliation ==
    /\ \A p \in Range(pkgs) : p.flagsSize = in.flagsSize
    /\ \A r \in Rendered :
          /\ Len(r.input.FlagValues) \in 1..MaxWidth
          /\ in.flagsSize = 0
               => r.input.OutTypeSize = MinimalWidth(Len(r.input.FlagValues))
          /\ in.flagsSize # 0
               => /\ r.input.OutTypeSize = in.flagsSize
                  /\ in.flagsSize >= MinimalWidth(Len(r.input.FlagValues))
    /\ \A f \in FoundFiles :
          (Len(f.flagValues) \in 1..MaxWidth
              /\ 0 < in.flagsSize /\ in.flagsSize < MinimalWidth(Len(f.flagValues)))
          => /\ pc = "fatal"
             /\ fatal = Diag("sizeTooSmall", f.sourceTypeName,
                             MinimalWidth(Len(f.flagValues)), in.flagsSize, <<>>)
    /\ fatal.kind = "sizeTooSmall"
          => 0 < fatal.requested /\ fatal.requested < fatal.required

C6_Witness ==
    /\ pc = "fatal"
    /\ fatal.kind = "sizeTooSmall"
    /\ fatal.required = 16
    /\ fatal.requested = 8
    /\ Len(typeFlag) = 2

\* C9: a type found under the requested name that is not a struct, or a
\* struct without target fields, counts as found (no later file or
\* variant is searched for the name), and the run dies with the
\* unsupported-type diagnostic; nothing is written for the variant.
C9_UnsupportedTypeIsFatal ==
    \A v \in 1..Len(pkgs) :
       \A f \in Range(pkgs[v].files) :
          (/\ f.foundSourceType # NilObject
           /\ ~f.panicked
           /\ \E sp \in TopLevelSpecs(f.file) :
                 /\ sp.name = f.sourceTypeName
                 /\ ~sp.isStruct \/ TargetNames(sp) = {})
          => /\ pc = "fatal"
             /\ fatal.kind = "unsupported"
             /\ fatal.names = <<f.sourceTypeName>>
             /\ \A w \in Range(written) : w.src.pkg # v
             /\ \A sc \in scanned : sc[2] = f.sourceTypeName => sc[1] <= v

\* A variant has finished its loop over the names with a type resolved,
\* and a later variant declares one of the names left over: more than one
\* variant needs emission.
SecondVariantNeeded ==
    /\ pc = "types"
    /\ idx > Len(in.sourceTypeNames)
    /\ Len(foundTypes) > 0
    /\ \E name \in Range(remainingTypes) :
          \E w \in (pkgIdx + 1)..Len(pkgs) : Declares(pkgs[w], name)

\* C11: with -outFile given, a run in which more than one variant needs
\* emission dies with the single-file diagnostic before any file is
\* written; a run with -outFile never writes for two variants.
C11_SingleFileConflictBeforeWrite ==
    /\ [](outFileFlag # ""
            => /\ Len(written) <= 1
               /\ \A r1, r2 \in Rendered : r1.variant = r2.variant
               /\ written # <<>> => in.sourceTypeNames = <<>>)
    /\ []((pc = "fatal" /\ fatal.kind = "singleFile")
            => /\ written = <<>>
               /\ outFileFlag # ""
               /\ fatal.names = <<outFileFlag>>)
    /\ [][(SecondVariantNeeded /\ outFileFlag # "")
            => /\ pc' = "fatal"
               /\ fatal'.kind = "singleFile"
               /\ written' = <<>>]_vars

C11_Witness ==
    /\ pc = "fatal"
    /\ fatal.kind = "singleFile"
    /\ written = <<>>
    /\ foundTypes = <<"T">>
    /\ \E w \in (pkgIdx + 1)..Len(pkgs) : Declares(pkgs[w], "U")

\* The file name the package doc gives a variant whose first resolved
\* type is name: <lower-cased name>_flagged.go, or _flagged_test.go for a
\* variant with test files.
LowerCased(name) ==
    CASE name = "T" -> "t"
      [] name = "U" -> "u"
      [] OTHER -> name

ExpectedFileName(name, hasTestFiles) ==
    LowerCased(name) \o (IF hasTestFiles THEN "_flagged_test.go" ELSE "_flagged.go")

\* The variants a file has been written for.
EmittingVariants == {written[k].src.pkg : k \in 1..Len(written)}

C13_NoTwoVariantsWriteOnePath ==
    /\ \A k1, k2 \in 1..Len(written) :
          k1 # k2 => written[k1].outFileName # written[k2].outFileName
    /\ outFileFlag # "" => Len(written) <= 1

\* With -outFile at most one variant writes, to that file.
SingleOutFileWrittenOnce ==
    outFileFlag # ""
    => /\ Len(written) <= 1
       /\ \A k \in 1..Len(written) : written[k].outFileName = outFileFlag

\* The variants that resolve a requested name: the first to declare it.
ResolvingVariants == {FirstDeclaring(name) : name \in Range(typeFlag)} \ {0}

\* The writes done for variant v.
WritesFor(v) == {k \in 1..Len(written) : written[k].src.pkg = v}

\* C14: on a successful run exactly one file is written for every variant
\* that resolved a requested type, holding what was rendered for it, and
\* none for a variant that resolved none.
C14_OneFilePerResolvingVariant ==
    /\ \A v \in 1..Len(pkgs) : Cardinality(WritesFor(v)) <= 1
    /\ \A k \in 1..Len(written) : written[k].src.body # <<>>
    /\ pc = "done"
         => /\ \A v \in ResolvingVariants : Cardinality(WritesFor(v)) = 1
            /\ \A v \in (1..Len(pkgs)) \ ResolvingVariants : WritesFor(v) = {}
            /\ \A name \in Range(typeFlag) :
                  \E k \in WritesFor(FirstDeclaring(name)) :
                     \E e \in Range(written[k].src.body) : e.SourceTypeName = name

C14_Witness ==
    /\ pc = "done"
    /\ Len(pkgs) = 3
    /\ Len(written) = 2
    /\ WritesFor(1) = {}

\* The diagnostics about the types of a variant.
VariantDiagKinds == {"unsupported", "tooManyFields", "sizeTooSmall", "singleFile"}

\* C15: a fatal condition about the types of a variant is met before the
\* file of that variant is written: a variant that fails has no file, a
\* file is written only after the whole loop over the names and holds
\* everything rendered for the variant, and the files of earlier variants
\* stay as they were written.
C15_FatalBeforeWrite ==
    /\ []((pc \in {"fatal", "panic"} /\ fatal.kind \in VariantDiagKinds \cup {"none"})
            => /\ pkgIdx \in 1..Len(pkgs)
               /\ WritesFor(pkgIdx) = {})
    /\ [][pc' \in {"fatal", "panic"} => written' = written]_vars
    /\ [][written' # written
            => /\ pc = "types" /\ idx > Len(in.sourceTypeNames)
               /\ pc' = "pkg" /\ fatal' = NoDiag
               /\ Len(written') = Len(written) + 1
               /\ SubSeq(written', 1, Len(written)) = written
               /\ written'[Len(written')].src = g
               /\ Len(g.body) = Len(foundTypes)]_vars

C15_Witness ==
    /\ pc = "fatal"
    /\ fatal.kind = "sizeTooSmall"
    /\ pkgs[pkgIdx].name = "x_test"
    /\ Len(written) = 1
    /\ written[1].src.pkg = 1
    /\ written[1].outFileName = "t_flagged.go"

\* C16 as stated: a -size smaller than a requested type requires makes
\* the run die before any file is written in the run.
C16_TooSmallWidthBeforeAnyWrite ==
    (pc = "fatal" /\ fatal.kind = "sizeTooSmall") => written = <<>>

\* C16: a -size smaller than a requested type requires makes the run die
\* before the file of the variant that resolves the type, and of any
\* later variant, is written; no file holds a type narrower than it
\* requires; files of earlier variants may have been written, and none
\* has been when the type is resolved in the first resolving variant.
C16_TooSmallWidthBeforeVariantWrite ==
    /\ (pc = "fatal" /\ fatal.kind = "sizeTooSmall")
          => /\ fatal.requested = in.flagsSize
             /\ \A k \in 1..Len(written) :
                   /\ written[k].src.pkg < pkgIdx
                   /\ \A e \in Range(written[k].src.body) :
                         e.SourceTypeName # fatal.typeName
             /\ (\A v \in ResolvingVariants : pkgIdx <= v) => written = <<>>
    /\ \A r \in Rendered :
          in.flagsSize # 0
          => in.flagsSize >= MinimalWidth(Len(r.input.FlagValues))

C16_Witness ==
    /\ pc = "fatal"
    /\ fatal = Diag("sizeTooSmall", "T", 16, 8, <<>>)
    /\ pkgIdx = 1
    /\ written = <<>>

(***************************************************************************)
(* Flag names (WalkSpec).                                                  *)
(***************************************************************************)
\* The flag name of a field as specified: the prefix removed from the
\* start if present, then the suffix from the end, then the first
\* character upper-cased.
SpecifiedFlagName(field, prefix, suffix) ==
    LET rest == TrimSuffix(TrimPrefix(field, prefix), suffix)
    IN ToUpper(SubSeq(rest, 1, 1)) \o SubSeq(rest, 2, Len(rest))

\* C17: the flag name of every collected field is the field name with the
\* prefix removed from its start, then the suffix from its end, then its
\* first character upper-cased; optFlagEnabled with opt and Enabled gives
\* Flag, and a name matching neither affix is only capitalized.
C17_FlagNameTrimsThenCapitalizes ==
    (walkPc = "returned" /\ ~walkFile.panicked)
    => \A i \in 1..Len(walkFile.flagValues) :
          LET fv == walkFile.flagValues[i]
          IN /\ fv.Flag = SpecifiedFlagName(fv.Field, walkPkg.trimPrefix,
                                            walkPkg.trimSuffix)
             /\ (fv.Field = "optFlagEnabled" /\ walkPkg.trimPrefix = "opt"
                    /\ walkPkg.trimSuffix = "Enabled") => fv.Flag = "Flag"

\* The flag names of fields whose first character is an ASCII character
\* are as specified.
AsciiFlagNamesAsSpecified ==
    (walkPc = "returned" /\ ~walkFile.panicked)
    => \A i \in 1..Len(walkFile.flagValues) :
          LET fv == walkFile.flagValues[i]
              rest == TrimSuffix(TrimPrefix(fv.Field, walkPkg.trimPrefix),
                                 walkPkg.trimSuffix)
          IN IsAscii(SubSeq(rest, 1, 1))
             => fv.Flag = SpecifiedFlagName(fv.Field, walkPkg.trimPrefix,
                                            walkPkg.trimSuffix)

(***************************************************************************)
(* Input validation (Spec).                                                *)
(***************************************************************************)
ValidationDiagKinds ==
    {"usage", "invalidType", "invalidOutType", "outTypeMismatch", "invalidSize",
     "tagsWithFiles"}

\* The input validation errors the flags of the run hold.
InputErrors ==
    (IF typeFlag = <<>> THEN {"usage"} ELSE {})
    \cup (IF \E n \in Range(typeFlag) : ~IsIdentifier(n) THEN {"invalidType"} ELSE {})
    \cup (IF \E n \in Range(flags.outType) : ~IsIdentifier(n)
          THEN {"invalidOutType"} ELSE {})
    \cup (IF flags.outType # <<>> /\ Len(flags.outType) # Len(typeFlag)
          THEN {"outTypeMismatch"} ELSE {})
    \cup (IF flags.size \notin {0, 8, 16, 32, 64} THEN {"invalidSize"} ELSE {})
    \cup (IF flags.tags # "" /\ \E a \in Range(flags.args) : ~a.isDir
          THEN {"tagsWithFiles"} ELSE {})

\* C18: a run whose flags hold an input validation error terminates with
\* the diagnostic of one of its errors before any package is loaded and
\* before any file is written, and only such a run does.
C18_InvalidInputBeforeLoad ==
    /\ (InputErrors # {} /\ pc # "idle")
          => /\ pc \in {"validate", "fatal"}
             /\ pc = "fatal" => fatal.kind \in InputErrors
             /\ pkgs = <<>>
             /\ written = <<>>
             /\ in = NoInput
    /\ (pc = "fatal" /\ fatal.kind \in ValidationDiagKinds)
          => /\ fatal.kind \in InputErrors
             /\ pkgs = <<>>
             /\ written = <<>>
    /\ (pkgs # <<>> \/ written # <<>>) => InputErrors = {}

C18_Witness ==
    /\ pc = "fatal"
    /\ fatal.kind = "tagsWithFiles"
    /\ Len(flags.args) = 2
    /\ InputErrors = {"tagsWithFiles"}
    /\ pkgs = <<>>

\* The methods that take one bit index.
IndexTakingOps == {"Is", "Set", "Reset", "SetTo", "Toggle"}

\* C19: for each of the four widths, Is, Set, Reset, SetTo and Toggle panic
\* exactly when idx < 0 or idx >= Size(): they succeed for 0, Size()/2 and
\* Size()-1, they panic for -1, Size() and 2*Size(), and a call that
\* panicked has left the flags value as it was.
C19_PanicsExactlyOutOfRange ==
    bfCall.op \in IndexTakingOps =>
       /\ bfCall.panicked <=> (bfCall.idx < 0 \/ bfCall.idx >= bfSize)
       /\ bfCall.idx \in {0, bfSize \div 2, bfSize - 1} => ~bfCall.panicked
       /\ bfCall.idx \in {-1, bfSize, 2 * bfSize} => bfCall.panicked
       /\ bfCall.panicked => bfBits = bfCall.before

\* Toggle(64) on a BitFlags64 that holds bits panicked.
C19_Witness ==
    /\ bfSize = 64
    /\ bfCall.op = "Toggle"
    /\ bfCall.idx = bfSize
    /\ bfCall.panicked
    /\ bfCall.before = {1, 63}
    /\ bfBits = {1, 63}

\* The last call was a Set, Reset or SetTo that returned.
SetReturned == bfCall.op \in {"Set", "Reset", "SetTo"} /\ ~bfCall.panicked

\* C20: for an in-range idx, SetTo(idx, v), Set being v = true and Reset
\* v = false, returns the previous value of bit idx, leaves bit idx equal to
\* v and leaves every other bit as it was, idx = Size()-1 included; so the
\* same Set made again returns true, the same Reset made again returns
\* false, and Is(idx) made next returns v.
C20_SetToReturnsOldAndSetsOnlyIdx ==
    /\ [](SetReturned =>
            /\ bfCall.idx \in 0 .. (bfSize - 1)
            /\ bfCall.op = "Set" => bfCall.new
            /\ bfCall.op = "Reset" => ~bfCall.new
            /\ bfCall.ret <=> (bfCall.idx \in bfCall.before)
            /\ (bfCall.idx \in bfBits) <=> bfCall.new
            /\ bfBits \ {bfCall.idx} = bfCall.before \ {bfCall.idx})
    /\ [][(/\ SetReturned
           /\ bfCall'.idx = bfCall.idx
           /\ ~bfCall'.panicked) =>
             /\ bfCall'.op = bfCall.op /\ bfCall'.new = bfCall.new
                  => bfCall'.ret = bfCall.new
             /\ bfCall'.op = "Is" => bfCall'.ret = bfCall.new]_vars

\* Set(63) on a BitFlags64 whose bit 63 was set already returned true and
\* left the value as it was.
C20_Witness ==
    /\ bfSize = 64
    /\ bfCall.op = "Set"
    /\ bfCall.idx = bfSize - 1
    /\ ~bfCall.panicked
    /\ bfCall.ret
    /\ bfCall.before = {1, 63}
    /\ bfBits = {1, 63}

\* The last call was a Toggle that returned.
ToggleReturned == bfCall.op = "Toggle" /\ ~bfCall.panicked

\* C21: for an in-range idx, Toggle(idx) flips bit idx, leaves every other
\* bit as it was and returns the new value of bit idx, the negation of its
\* previous value; the same Toggle made again returns the opposite value and
\* restores the value the first one was called on.
C21_ToggleFlipsOnlyIdx ==
    /\ [](ToggleReturned =>
            /\ bfCall.idx \in 0 .. (bfSize - 1)
            /\ (bfCall.idx \in bfBits) <=> ~(bfCall.idx \in bfCall.before)
            /\ bfBits \ {bfCall.idx} = bfCall.before \ {bfCall.idx}
            /\ bfCall.ret <=> (bfCall.idx \in bfBits))
    /\ [][(/\ ToggleReturned
           /\ bfCall'.op = "Toggle"
           /\ bfCall'.idx = bfCall.idx
           /\ ~bfCall'.panicked) =>
             /\ bfCall'.ret = ~bfCall.ret
             /\ bfBits' = bfCall.before]_vars

\* Toggle(32) on a BitFlags64 holding bits 1 and 63 returned true and set
\* bit 32 only.
C21_Witness ==
    /\ bfSize = 64
    /\ ToggleReturned
    /\ bfCall.idx = 32
    /\ bfCall.ret
    /\ bfCall.before = {1, 63}
    /\ bfBits = {1, 32, 63}

\* C22: from any value SetAll makes every one of the Size() bits true, so
\* that a following AllSet, AnySet and in-range Is return true, and ResetAll
\* makes every bit false, so that a following AnySet and AllSet return
\* false; SetAll made again and ResetAll made again change nothing.
C22_SetAllResetAll ==
    /\ [](bfCall.op = "SetAll" =>
            /\ ~bfCall.panicked
            /\ \A i \in 0 .. (bfSize - 1) : i \in bfBits
            /\ Cardinality(bfBits) = bfSize)
    /\ [](bfCall.op = "ResetAll" =>
            /\ ~bfCall.panicked
            /\ \A i \in 0 .. (bfSize - 1) : i \notin bfBits
            /\ Cardinality(bfBits) = 0)
    /\ [][bfCall.op = "SetAll" =>
            /\ bfCall'.op \in {"AllSet", "AnySet"}
                 => bfCall'.ret /\ ~bfCall'.panicked
            /\ bfCall'.op = "Is" /\ bfCall'.idx \in 0 .. (bfSize - 1)
                 => bfCall'.ret /\ ~bfCall'.panicked
            /\ bfCall'.op = "SetAll" => bfBits' = bfBits]_vars
    /\ [][bfCall.op = "ResetAll" =>
            /\ bfCall'.op \in {"AllSet", "AnySet"}
                 => ~bfCall'.ret /\ ~bfCall'.panicked
            /\ bfCall'.op = "ResetAll" => bfBits' = bfBits]_vars

\* SetAll on a BitFlags64 holding bits 1 and 63 set all 64 bits.
C22_Witness ==
    /\ bfSize = 64
    /\ bfCall.op = "SetAll"
    /\ bfCall.before = {1, 63}
    /\ bfBits = 0 .. 63

\* The indexes of the list the last call was made with.
Listed == {bfCall.idxs[k] : k \in 1 .. Len(bfCall.idxs)}

AllListedInRange == \A i \in Listed : 0 <= i /\ i < bfSize

\* C23: with in-range indexes AnyOf returns true exactly when at least one
\* listed bit is set and AllOf exactly when every listed bit is set; without
\* indexes AnyOf is AnySet, true when some bit of the value is set, and
\* AllOf is AllSet, true when all Size() bits are set; none of the four
\* changes the value.
C23_AnyOfAllOf ==
    bfCall.op \in {"AnyOf", "AllOf", "AnySet", "AllSet"} =>
       /\ bfBits = bfCall.before
       /\ bfCall.op \in {"AnySet", "AllSet"} => bfCall.idxs = <<>>
       /\ AllListedInRange =>
            /\ ~bfCall.panicked
            /\ bfCall.op = "AnyOf" /\ Listed # {}
                 => (bfCall.ret <=> \E i \in Listed : i \in bfCall.before)
            /\ bfCall.op = "AllOf" /\ Listed # {}
                 => (bfCall.ret <=> \A i \in Listed : i \in bfCall.before)
            /\ bfCall.op \in {"AnyOf", "AnySet"} /\ Listed = {}
                 => (bfCall.ret <=> \E i \in 0 .. (bfSize - 1) : i \in bfCall.before)
            /\ bfCall.op \in {"AllOf", "AllSet"} /\ Listed = {}
                 => (bfCall.ret <=> \A i \in 0 .. (bfSize - 1) : i \in bfCall.before)

\* AllOf() on a BitFlags64 holding only bits 1 and 63 returned false.
C23_Witness ==
    /\ bfSize = 64
    /\ bfCall.op = "AllOf"
    /\ bfCall.idxs = <<>>
    /\ bfCall.before = {1, 63}
    /\ ~bfCall.ret
    /\ ~bfCall.panicked

\* C24: AnyOf and AllOf panic whenever one of the indexes passed is out of
\* range, wherever it stands in the list and also when an in-range index
\* before it settles the result, as in AnyOf(5, Size(), 0) on an all-set
\* value; the value is left as it was.
C24_AnyOfAllOfPanic ==
    bfCall.op \in {"AnyOf", "AllOf"} =>
       /\ ~AllListedInRange => bfCall.panicked
       /\ bfCall.panicked => ~AllListedInRange /\ bfBits = bfCall.before

\* AnyOf(5, 64, 0) on an all-set BitFlags64 panicked.
C24_Witness ==
    /\ bfSize = 64
    /\ bfCall.op = "AnyOf"
    /\ bfCall.idxs = <<5, 64, 0>>
    /\ bfCall.before = 0 .. 63
    /\ bfCall.panicked

\* The character of str at the 0-based position p.
CharAt(str, p) == SubSeq(str, p + 1, p + 1)

\* C25: String() returns exactly Size() characters, each "0" or "1", the
\* highest bit first: the character at the 0-based position p is "1"
\* exactly when bit Size()-1-p is set.
C25_StringIsPaddedBinary ==
    bfCall.op = "String" =>
       /\ Len(bfCall.str) = bfSize
       /\ bfBits = bfCall.before
       /\ \A p \in 0 .. (bfSize - 1) :
             /\ CharAt(bfCall.str, p) \in {"0", "1"}
             /\ CharAt(bfCall.str, p) = "1" <=> (bfSize - 1 - p) \in bfCall.before

\* String() of the BitFlags16 holding bits 1 and 15.
C25_Witness ==
    /\ bfSize = 16
    /\ bfCall.op = "String"
    /\ bfCall.before = {1, 15}
    /\ bfCall.str = "1000000000000010"

\* C26: PrettyString() lists the Size() bits, the highest first, as "I" for
\* a set and "O" for an unset bit, with a separator between every two
\* neighbours, "_" after each 8th bit and "|" elsewhere, and none after the
\* last bit; it is 2*Size()-1 characters long and its letter p is "I"
\* exactly when digit p of String() is "1".
C26_PrettyStringLayout ==
    bfCall.op = "PrettyString" =>
       /\ Len(bfCall.str) = 2 * bfSize - 1
       /\ bfBits = bfCall.before
       /\ \A p \in 0 .. (bfSize - 1) :
             /\ CharAt(bfCall.str, 2 * p) \in {"I", "O"}
             /\ CharAt(bfCall.str, 2 * p) = "I" <=> (bfSize - 1 - p) \in bfCall.before
             /\ CharAt(bfCall.str, 2 * p) = "I"
                  <=> CharAt(getBinaryString(bfSize, bfCall.before), p) = "1"
       /\ \A p \in 0 .. (bfSize - 2) :
             CharAt(bfCall.str, 2 * p + 1) = IF (p + 1) % 8 = 0 THEN "_" ELSE "|"

\* PrettyString() of the BitFlags16 holding bits 1 and 15.
C26_Witness ==
    /\ bfSize = 16
    /\ bfCall.op = "PrettyString"
    /\ bfCall.before = {1, 15}
    /\ bfCall.str = "I|O|O|O|O|O|O|O_O|O|O|O|O|O|I|O"

\* C27: the interface value returned by BitFlags() shares its state with
\* the typed value: whichever of the two handles a call is made on, a Set
\* that returns adds its bit to the typed value and keeps the bits that were
\* set, an Is reports the bit of the typed value, and so an Is that follows
\* a Set, Reset or SetTo of the same index on the other handle returns the
\* value that was set.
C27_AdapterSharesState ==
    /\ [][bfCall'.op \in {"Set", "Reset", "SetTo"} /\ ~bfCall'.panicked =>
            /\ bfCall'.before = bfBits
            /\ bfCall'.new => bfBits' = bfBits \cup {bfCall'.idx}
            /\ ~bfCall'.new => bfBits' = bfBits \ {bfCall'.idx}]_vars
    /\ [][bfCall'.op = "Is" /\ ~bfCall'.panicked =>
            /\ bfCall'.ret <=> (bfCall'.idx \in bfBits)
            /\ bfBits' = bfBits]_vars
    /\ [][(/\ SetReturned
           /\ bfCall'.op = "Is"
           /\ bfCall'.idx = bfCall.idx
           /\ bfCall'.via # bfCall.via
           /\ ~bfCall'.panicked) => bfCall'.ret = bfCall.new]_vars

\* Set(0) made on the interface value of a BitFlags64 holding bits 1 and 63
\* shows in the typed value, with bits 1 and 63 kept.
C27_Witness ==
    /\ bfSize = 64
    /\ bfIface # 0
    /\ bfCall.op = "Set"
    /\ bfCall.via = "iface"
    /\ bfCall.idx = 0
    /\ ~bfCall.panicked
    /\ ~bfCall.ret
    /\ bfCall.before = {1, 63}
    /\ bfBits = {0, 1, 63}

\* C28: every type handed to the renderer has a width of 8, 16, 32 or 64
\* that is at least the number of its flag values, and the smallest such
\* width when -size is not given; a resolved type with no flag values or
\* with more than 64 ends the run and nothing is rendered for it.
C28_RenderedWidthInvariant ==
    /\ \A r \in Rendered :
          /\ r.input.OutTypeSize \in Widths
          /\ r.input.OutTypeSize >= Len(r.input.FlagValues)
          /\ Len(r.input.FlagValues) >= 1
          /\ flags.size = 0 =>
                \A w \in Widths : w >= Len(r.input.FlagValues)
                                     => r.input.OutTypeSize <= w
    /\ \A f \in FoundFiles :
          (Len(f.flagValues) = 0 \/ Len(f.flagValues) > MaxWidth)
          => /\ pc = "fatal"
             /\ fatal.kind \in {"unsupported", "tooManyFields"}
             /\ \A r \in Rendered : r.input.SourceTypeName # f.sourceTypeName

\* A type of ten flags was written with width 16, no -size given.
C28_Witness ==
    /\ flags.size = 0
    /\ \E w \in Range(written) : \E e \in Range(w.src.body) :
          /\ Len(e.FlagValues) = TenFields
          /\ e.OutTypeSize = 16

\* a can be had from b by dropping elements.
RECURSIVE IsSubsequence(_, _)
IsSubsequence(a, b) ==
    IF a = <<>> THEN TRUE
    ELSE IF b = <<>> THEN FALSE
    ELSE IF Head(a) = Head(b) THEN IsSubsequence(Tail(a), Tail(b))
    ELSE IsSubsequence(a, Tail(b))

\* How often name stands in the sequence names.
Occurrences(name, names) ==
    Cardinality({i \in 1 .. Len(names) : names[i] = name})

\* The loop over the variants is running or has ended.
InVariantLoop == pc \in {"pkg", "types", "done"}

\* C29: once the flags are validated the remaining names, in.sourceTypeNames,
\* never grow and keep the order the names were requested in; between the
\* variants the names written so far and the remaining names are together
\* exactly the requested names, each as often as requested and none both
\* written and remaining; a variant that resolves nothing leaves the
\* remaining names as they are.
C29_RemainingNames ==
    /\ [](InVariantLoop =>
            /\ IsSubsequence(in.sourceTypeNames, typeFlag)
            /\ \A name \in Range(typeFlag) \cup Range(in.sourceTypeNames) :
                  /\ EmittedCount(name) + Occurrences(name, in.sourceTypeNames)
                        = Occurrences(name, typeFlag)
                  /\ EmittedCount(name) = 0
                        \/ Occurrences(name, in.sourceTypeNames) = 0)
    /\ [][pc # "validate" =>
            /\ Len(in'.sourceTypeNames) <= Len(in.sourceTypeNames)
            /\ IsSubsequence(in'.sourceTypeNames, in.sourceTypeNames)]_vars
    /\ [][pc = "types" /\ written' = written
            => in'.sourceTypeNames = in.sourceTypeNames]_vars

\* After T was written from the first variant, U alone remains of -type=T,U.
C29_Witness ==
    /\ pc = "pkg"
    /\ typeFlag = <<"T", "U">>
    /\ in.sourceTypeNames = <<"U">>
    /\ Len(written) = 1
    /\ EmittedCount("T") = 1

\* C30: for every field that is a flag and every -trimprefix/-trimsuffix
\* pair, flagName returns a name that is not empty and does not crash, also
\* when the prefix, the suffix or both together are the whole field name
\* (field optEnabled with prefix opt and suffix Enabled): no walk panics and
\* no collected flag has an empty name.
C30_FlagNameNeverCrashes ==
    /\ walkPc # "panic"
    /\ ~walkFile.panicked
    /\ \A i \in 1 .. Len(walkFile.flagValues) :
          Len(walkFile.flagValues[i].Flag) > 0

\* The walk panics only where the affixes leave nothing of a field name.
PanicOnlyOnEmptyTrimmedName ==
    walkFile.panicked =>
       \E tspec \in AllSpecs(Ast(walkFile.file)) : \E name \in TargetNames(tspec) :
          flagNamePanics(name, walkPkg.trimPrefix, walkPkg.trimSuffix)

====
